---- MODULE Spec2Model ----
(***************************************************************************)
(* A model of kafkit's Schema Registry client: the wire-format codec, the  *)
(* response interpretation, the SchemaCache / SubjectCache pair and the    *)
(* three cache-first operations of RegistryApi, run by concurrent tasks.   *)
(***************************************************************************)
EXTENDS Integers, Sequences, FiniteSets, TLC

VARIABLES
    id_to_schema,    \* SchemaCache._id_to_schema: schema ID -> serialized schema
    schema_to_id,    \* SchemaCache._schema_to_id: serialized schema -> schema ID
    subject_to_id,   \* SubjectCache._subject_to_id: <<subject, version>> -> schema ID
    task,            \* per task: the coroutine's position and its local variables
    reqs,            \* the requests that reached the transport, counted per request
    last,            \* the call that returned last: operation, argument, outcome
    observing,       \* whether reqs, last and dirty are being recorded in this run
    dirty,           \* whether some SchemaCache.insert re-paired a cached ID or schema
    wire,            \* the wire-codec run: its input, the message and the unpacked result
    http,            \* the decipher_response run: the response and its outcome
    instances        \* the RegistryApi objects constructed, and the dicts they refer to

vars == <<id_to_schema, schema_to_id, subject_to_id, task, reqs, last, dirty, observing, wire,
          http, instances>>

cacheVars == <<id_to_schema, schema_to_id, subject_to_id>>

clientVars == <<task, reqs, last, observing>>

-----------------------------------------------------------------------------
(* Python values.  A dict is the sequence of its <<key, value>> items in    *)
(* insertion order; a JSON string is a record holding the items in the      *)
(* order they were written; an Optional is <<>> (None) or <<v>>.            *)

None == <<>>

Some(v) == <<v>>

Ok(v) == [ok |-> TRUE, exc |-> "", val |-> v]

Raise(e) == [ok |-> FALSE, exc |-> e, val |-> <<>>]

HasKey(d, k) == \E i \in 1..Len(d) : d[i][1] = k

Get(d, k) == d[CHOOSE i \in 1..Len(d) : d[i][1] = k][2]

DelKey(d, k) == SelectSeq(d, LAMBDA item : item[1] # k)

\* The keys a schema can carry, in the order json.dumps(sort_keys=True) writes them.
KeyOrder == <<"__fastavro_parsed", "name", "type">>

RECURSIVE SortedItems(_, _)
SortedItems(d, n) ==
    IF n > Len(KeyOrder) THEN <<>>
    ELSE (IF HasKey(d, KeyOrder[n]) THEN <<<<KeyOrder[n], Get(d, KeyOrder[n])>>>> ELSE <<>>)
         \o SortedItems(d, n + 1)

json_dumps_sorted(d) == [text |-> SortedItems(d, 1)]

json_loads(s) == s.text

-----------------------------------------------------------------------------
(* Schemas.                                                                 *)

RecordA == <<<<"type", "record">>, <<"name", "A">>>>

RecordA_reordered == <<<<"name", "A">>, <<"type", "record">>>>

RecordA_parsed == <<<<"type", "record">>, <<"name", "A">>, <<"__fastavro_parsed", "true">>>>

Primitive == <<<<"type", "string">>>>

Malformed == <<<<"type", "unknown">>>>

\* What a caller can hand over as a schema.
Schemas == {RecordA, RecordA_reordered, RecordA_parsed, Primitive, Malformed}

AvroTypes == {"record", "string"}

\* fastavro.parse_schema: a schema that carries the parse hint is returned as
\* it is, an unknown type is an error, anything else gains the hint.
parse_schema(schema) ==
    IF HasKey(schema, "__fastavro_parsed") THEN Ok(schema)
    ELSE IF Get(schema, "type") \notin AvroTypes THEN Raise("SchemaParseException")
    ELSE Ok(schema \o <<<<"__fastavro_parsed", "true">>>>)

_serialize_schema(schema) ==
    LET parsed == parse_schema(schema)
    IN  IF parsed.ok THEN Ok(json_dumps_sorted(parsed.val)) ELSE parsed

_prep_schema(schema) == json_dumps_sorted(DelKey(schema, "__fastavro_parsed"))

\* Two schemas are canonicalization-equal when both serialize to one string.
CanonEqual(a, b) ==
    /\ _serialize_schema(a).ok
    /\ _serialize_schema(b).ok
    /\ _serialize_schema(a).val = _serialize_schema(b).val

IDs == {1, 2}

-----------------------------------------------------------------------------
(* SchemaCache.  A Python dict is a function on its keys.                   *)

Put_mutant(f, k, v) == [x \in {k} |-> v]

\* d[k] = v on a dict
Put(f, k, v) == [x \in (DOMAIN f) \cup {k} |-> IF x = k THEN v ELSE f[x]]

EmptyMap == [x \in {} |-> x]

SchemaCache_store_exclusive_mutant(i2s, s2i, serialized, schema_id) ==
    [id_to_schema |-> Put([i \in DOMAIN i2s |-> IF i2s[i] = serialized
                                                THEN json_dumps_sorted(<<>>)
                                                ELSE i2s[i]],
                          schema_id, serialized),
     schema_to_id |-> Put(s2i, serialized, schema_id)]

SchemaCache_store_mutant(i2s, s2i, serialized, schema_id) ==
    [id_to_schema |-> Put(i2s, schema_id, serialized), schema_to_id |-> s2i]

\* SchemaCache.insert, the two assignments.
SchemaCache_store(i2s, s2i, serialized, schema_id) ==
    [id_to_schema |-> Put(i2s, schema_id, serialized),
     schema_to_id |-> Put(s2i, serialized, schema_id)]

SchemaCache_insert_mutant(i2s, s2i, schema, schema_id) ==
    LET serialized == _serialize_schema(schema)
    IN  IF ~serialized.ok THEN serialized
        ELSE IF schema_id \in DOMAIN i2s THEN Raise("KeyError")
        ELSE Ok(SchemaCache_store(i2s, s2i, serialized.val, schema_id))

\* SchemaCache.insert: the maps afterwards, or the exception raised.
SchemaCache_insert(i2s, s2i, schema, schema_id) ==
    LET serialized == _serialize_schema(schema)
    IN  IF serialized.ok
        THEN Ok(SchemaCache_store(i2s, s2i, serialized.val, schema_id))
        ELSE serialized

\* SchemaCache.__getitem__ with an int key.
SchemaCache_get_by_id(i2s, key) ==
    IF key \in DOMAIN i2s THEN Ok(json_loads(i2s[key])) ELSE Raise("KeyError")

SchemaCache_get_by_schema_mutant(s2i, key) ==
    LET serialized == _serialize_schema(key)
    IN  IF ~serialized.ok THEN serialized
        ELSE IF serialized.val \in DOMAIN s2i THEN Ok(s2i[serialized.val])
        ELSE Raise("KeyError")

\* SchemaCache.__getitem__ with a schema key.
SchemaCache_get_by_schema(s2i, key) ==
    LET serialized == _serialize_schema(key)
    IN  IF ~serialized.ok THEN Raise("KeyError")
        ELSE IF serialized.val \in DOMAIN s2i THEN Ok(s2i[serialized.val])
        ELSE Raise("KeyError")

SchemaCache_contains_id_mutant(i2s, key) == TRUE

\* SchemaCache.__contains__ with an int key.
SchemaCache_contains_id(i2s, key) == SchemaCache_get_by_id(i2s, key).ok

SchemaCache_contains_schema_mutant(s2i, key) == TRUE

\* SchemaCache.__contains__ with a schema key.
SchemaCache_contains_schema(s2i, key) == SchemaCache_get_by_schema(s2i, key).ok

-----------------------------------------------------------------------------
(* SubjectCache.  A version is an int or a str; isinstance(version, int)   *)
(* is the isint field.                                                      *)

V(n) == [isint |-> TRUE, n |-> n, s |-> ""]

VStr(s) == [isint |-> FALSE, n |-> 0, s |-> s]

Latest == VStr("latest")

Subjects == {"s1"}

IntVersions == {V(1), V(2)}

Versions == IntVersions \cup {Latest}

Caches(i2s, s2i, sub) == [id_to_schema |-> i2s, schema_to_id |-> s2i, subject_to_id |-> sub]

SubjectCache_insert_mutant(i2s, s2i, sub, subject, version, schema_id, schema) ==
    IF ~version.isint THEN Raise("TypeError")
    ELSE IF schema_id # None /\ schema # None
    THEN LET ins == SchemaCache_insert(i2s, s2i, schema[1], schema_id[1])
         IN  IF ~ins.ok THEN ins
             ELSE Ok(Caches(ins.val.id_to_schema, ins.val.schema_to_id,
                            Put(sub, <<subject, version>>, schema_id[1])))
    ELSE IF schema_id # None
    THEN IF ~SchemaCache_contains_id(i2s, schema_id[1]) THEN Raise("ValueError")
         ELSE Ok(Caches(i2s, s2i, Put(sub, <<subject, version>>, schema_id[1])))
    ELSE IF schema = None THEN Raise("ValueError")
    ELSE IF ~SchemaCache_contains_schema(s2i, schema[1]) THEN Raise("ValueError")
    ELSE Ok(Caches(i2s, s2i,
                   Put(sub, <<subject, version>>,
                       SchemaCache_get_by_schema(s2i, schema[1]).val)))

\* SubjectCache.insert: the three maps afterwards, or the exception raised.
\* schema_id and schema are Optionals.
SubjectCache_insert(i2s, s2i, sub, subject, version, schema_id, schema) ==
    IF ~version.isint THEN Raise("TypeError")
    ELSE IF schema_id # None
    THEN IF ~SchemaCache_contains_id(i2s, schema_id[1])
         THEN IF schema = None THEN Raise("ValueError")
              ELSE LET ins == SchemaCache_insert(i2s, s2i, schema[1], schema_id[1])
                   IN  IF ~ins.ok THEN ins
                       ELSE Ok(Caches(ins.val.id_to_schema, ins.val.schema_to_id,
                                      Put(sub, <<subject, version>>, schema_id[1])))
         ELSE Ok(Caches(i2s, s2i, Put(sub, <<subject, version>>, schema_id[1])))
    ELSE IF schema # None
    THEN IF ~SchemaCache_contains_schema(s2i, schema[1])
         THEN Raise("ValueError")
         ELSE Ok(Caches(i2s, s2i,
                        Put(sub, <<subject, version>>,
                            SchemaCache_get_by_schema(s2i, schema[1]).val)))
    ELSE Raise("ValueError")

SubjectCache_insert_leaves_mutant(i2s, s2i, sub, subject, version, schema_id, schema) ==
    LET r == SubjectCache_insert(i2s, s2i, sub, subject, version, schema_id, schema)
        ins == SchemaCache_insert(i2s, s2i, schema[1], schema_id[1])
    IN  IF r.ok THEN r.val
        ELSE IF schema_id # None /\ schema # None /\ ins.ok
        THEN Caches(ins.val.id_to_schema, ins.val.schema_to_id, sub)
        ELSE Caches(i2s, s2i, sub)

\* The three maps as SubjectCache.insert leaves them, by return or by raise:
\* each raise comes before the first assignment.
SubjectCache_insert_leaves(i2s, s2i, sub, subject, version, schema_id, schema) ==
    LET r == SubjectCache_insert(i2s, s2i, sub, subject, version, schema_id, schema)
    IN  IF r.ok THEN r.val ELSE Caches(i2s, s2i, sub)

\* SubjectCache.get_id
SubjectCache_get_id(sub, subject, version) ==
    IF <<subject, version>> \in DOMAIN sub THEN Ok(sub[<<subject, version>>])
    ELSE Raise("ValueError")

\* SubjectCache.get_schema
SubjectCache_get_schema(i2s, sub, subject, version) ==
    LET sid == SubjectCache_get_id(sub, subject, version)
    IN  IF ~sid.ok THEN sid
        ELSE IF ~SchemaCache_get_by_id(i2s, sid.val).ok THEN Raise("ValueError")
        ELSE SchemaCache_get_by_id(i2s, sid.val)

SubjectCache_get_mutant(i2s, sub, subject, version) ==
    LET key == IF version.isint THEN <<subject, version>> ELSE <<subject, V(1)>>
    IN  IF key \in DOMAIN sub /\ SchemaCache_get_by_id(i2s, sub[key]).ok
        THEN Ok([subject |-> subject, version |-> key[2], id |-> sub[key],
                 schema |-> SchemaCache_get_by_id(i2s, sub[key]).val])
        ELSE Raise("ValueError")

\* SubjectCache.get
SubjectCache_get(i2s, sub, subject, version) ==
    IF ~version.isint THEN Raise("ValueError")
    ELSE LET sid == SubjectCache_get_id(sub, subject, version)
         IN  IF ~sid.ok THEN sid
             ELSE IF ~SchemaCache_get_by_id(i2s, sid.val).ok THEN Raise("ValueError")
             ELSE Ok([subject |-> subject, version |-> version, id |-> sid.val,
                      schema |-> SchemaCache_get_by_id(i2s, sid.val).val])

\* SubjectCache.__contains__
SubjectCache_contains(sub, key) == key \in DOMAIN sub

-----------------------------------------------------------------------------
(* HTTP responses.  A decoded body is a Python value: None, a dict (its     *)
(* items), a list or a str.  A body is its bytes: how many there are, the   *)
(* text they hold and the value json.loads gives for that text.             *)

PyNone == [t |-> "NoneType", v |-> <<>>]

PyDict(items) == [t |-> "dict", v |-> items]

PyList(elems) == [t |-> "list", v |-> elems]

PyStr(text) == [t |-> "str", v |-> text]

\* data[key] on a decoded body
Subscript(data, key) ==
    IF data.t = "dict"
    THEN IF HasKey(data.v, key) THEN Ok(Get(data.v, key)) ELSE Raise("KeyError")
    ELSE Raise("TypeError")

EmptyBody == [len |-> 0, text |-> "", json |-> PyNone]

Body(n, text, value) == [len |-> n, text |-> text, json |-> value]

\* The Schema Registry's error envelope, and bodies that are not one.
EnvelopeBody ==
    Body(45, "{error_code, message}",
         PyDict(<<<<"error_code", 40401>>, <<"message", "Subject not found.">>>>))

NoCodeBody ==
    Body(42, "{error, message}",
         PyDict(<<<<"error", 12345>>, <<"message", "I've got reasons">>>>))

NoMessageBody == Body(21, "{error_code}", PyDict(<<<<"error_code", 50001>>>>))

ListBody == Body(9, "[1, 2, 3]", PyList(<<1, 2, 3>>))

\* Text that json.loads cannot parse.
NotJson == [t |-> "JSONDecodeError", v |-> <<>>]

HtmlBody == Body(26, "<html>Bad Gateway</html>", NotJson)

\* A content-type header value: the media type and its parameters.
ContentType(type, params) == [type |-> type, params |-> params]

SchemaRegistryJson == ContentType("application/vnd.schemaregistry.v1+json", <<>>)

ApplicationJson == ContentType("application/json", <<<<"charset", "utf-8">>>>)

TextHtml == ContentType("text/html", <<>>)

\* headers.get("content-type")
ContentTypeHeaders == {None, Some(SchemaRegistryJson), Some(ApplicationJson), Some(TextHtml)}

\* kafkit.httputils.parse_content_type; content_type is an Optional
parse_content_type(content_type) ==
    IF content_type = None THEN [type |-> None, encoding |-> "utf-8"]
    ELSE [type |-> Some(content_type[1].type),
          encoding |-> IF HasKey(content_type[1].params, "charset")
                       THEN Get(content_type[1].params, "charset") ELSE "utf-8"]

JsonTypes == {"application/vnd.schemaregistry.v1+json", "application/json"}

\* decode_body: the decoded value, or the exception json.loads raises.
decode_body(content_type, body) ==
    LET parsed == parse_content_type(content_type)
    IN  IF body.len = 0 \/ content_type = None THEN Ok(PyNone)
        ELSE IF parsed.type[1] \in JsonTypes
        THEN IF body.json = NotJson THEN Raise("JSONDecodeError") ELSE Ok(body.json)
        ELSE Ok(PyStr(body.text))

\* A raised RegistryHttpError (or subclass) with its three attributes.
HttpError(exc, status_code, error_code, message) ==
    [ok |-> FALSE, exc |-> exc, val |-> <<>>, status_code |-> status_code,
     error_code |-> error_code, message |-> message]

IsSuccess_mutant(status_code) == status_code >= 200 /\ status_code < 300

\* status_code in (200, 201, 204)
IsSuccess(status_code) == status_code \in {200, 201, 204}

RedirectionError_mutant(status_code, error_code, message) ==
    HttpError("RegistryRedirectionError", status_code, error_code, message)

\* raise RegistryRedirectionError(status_code=status_code)
RedirectionError(status_code, error_code, message) ==
    HttpError("RegistryRedirectionError", status_code, None, None)

decipher_response(status_code, headers, body) ==
    LET decoded == decode_body(headers, body)
        data == decoded.val
        found == Subscript(data, "error_code").ok /\ Subscript(data, "message").ok
        error_code == IF found THEN Some(Subscript(data, "error_code").val) ELSE None
        message == IF found THEN Some(Subscript(data, "message").val) ELSE None
    IN  IF ~decoded.ok THEN decoded
        ELSE IF IsSuccess(status_code) THEN Ok(data)
        ELSE IF status_code >= 500
        THEN HttpError("RegistryBrokenError", status_code, error_code, message)
        ELSE IF status_code >= 400
        THEN HttpError("RegistryBadRequestError", status_code, error_code, message)
        ELSE IF status_code >= 300
        THEN RedirectionError(status_code, error_code, message)
        ELSE HttpError("RegistryHttpError", status_code, None, None)

-----------------------------------------------------------------------------
(* The wire format.  bytes are sequences over 0..255.  A schema ID here is  *)
(* the Python int hi * 2^16 + lo with lo in 0..65535, kept in two halves so *)
(* that every value of [0, 2^32) and its neighbours can be written down.    *)

Int32(hi, lo) == [hi |-> hi, lo |-> lo]

InUInt32(n) == n.hi >= 0 /\ n.hi <= 65535 /\ n.lo >= 0 /\ n.lo <= 65535

FirstByte_mutant(schema_id) == 1

\* The magic byte struct.pack('>bI', 0, schema_id) is given.
FirstByte(schema_id) == 0

BigEndian_mutant(n) == <<n.lo % 256, n.lo \div 256, n.hi % 256, n.hi \div 256>>

\* struct's 'I' under '>': four bytes, most significant first.
BigEndian(n) == <<n.hi \div 256, n.hi % 256, n.lo \div 256, n.lo % 256>>

FromBigEndian(b) == Int32(b[1] * 256 + b[2], b[3] * 256 + b[4])

pack_wire_format_prefix(schema_id) ==
    IF InUInt32(schema_id) THEN Ok(<<FirstByte(schema_id)>> \o BigEndian(schema_id))
    ELSE Raise("struct.error")

TooShort_mutant(data) == Len(data) < 4

\* "if len(data) < 5"
TooShort(data) == Len(data) < 5

unpack_wire_format_data(data) ==
    IF TooShort(data) THEN Raise("RuntimeError")
    ELSE LET prefix == SubSeq(data, 1, IF Len(data) < 5 THEN Len(data) ELSE 5)
         IN  IF Len(prefix) # 5 THEN Raise("struct.error")
             ELSE Ok([schema_id |-> FromBigEndian(SubSeq(prefix, 2, 5)),
                      message_body |-> SubSeq(data, 6, Len(data))])

\* _make_message: the prefix, then what fastavro.schemaless_writer wrote.
_make_message(schema_id, avro) ==
    LET prefix == pack_wire_format_prefix(schema_id)
    IN  IF prefix.ok THEN Ok(prefix.val \o avro) ELSE prefix

\* Serializer.__call__ and PolySerializer.serialize both end in _make_message.
Serializer_call(schema_id, avro) == _make_message(schema_id, avro)

HalfWords == {0, 1, 255, 256, 32767, 32768, 65535}

\* Schema IDs handed to a serializer: [0, 2^32) and the first value on either side.
WireIds ==
    {Int32(hi, lo) : hi \in HalfWords, lo \in HalfWords}
        \cup {Int32(0 - 1, 65535), Int32(65536, 0)}

\* Avro-encoded payloads.
Payloads == {<<>>, <<0>>, <<84, 6>>, <<0, 0, 0, 0, 7>>}

\* What a consumer can be handed: any bytes at all.
Messages ==
    {<<>>, <<0>>, <<0, 0, 0, 0>>, <<7, 0, 0, 0>>,
     <<0, 0, 0, 0, 1>>, <<1, 0, 0, 0, 1>>, <<255, 255, 255, 255, 255>>,
     <<128, 1, 2, 3, 4, 5>>, <<0, 1, 2, 3, 4, 5>>}

WireInit ==
    wire \in [pc : {"start"}, schema_id : WireIds, avro : Payloads,
              data : {<<>>}, sent : {FALSE}, out : {Raise("")}]

WireIdle ==
    wire = [pc |-> "off", schema_id |-> Int32(0, 0), avro |-> <<>>,
            data |-> <<>>, sent |-> FALSE, out |-> Raise("")]

\* A producer serializes a record.
Serialize ==
    /\ wire.pc = "start"
    /\ LET message == Serializer_call(wire.schema_id, wire.avro)
       IN  wire' = IF message.ok
                   THEN [wire EXCEPT !.pc = "message", !.data = message.val, !.sent = TRUE]
                   ELSE [wire EXCEPT !.pc = "failed", !.out = message]
    /\ UNCHANGED <<cacheVars, clientVars, dirty, http, instances>>

\* A consumer is handed bytes that no serializer of this library wrote.
Receive(message) ==
    /\ wire.pc = "start"
    /\ wire' = [wire EXCEPT !.pc = "message", !.data = message]
    /\ UNCHANGED <<cacheVars, clientVars, dirty, http, instances>>

\* Deserializer.deserialize, its first line.
Unpack ==
    /\ wire.pc = "message"
    /\ wire' = [wire EXCEPT !.pc = "done", !.out = unpack_wire_format_data(wire.data)]
    /\ UNCHANGED <<cacheVars, clientVars, dirty, http, instances>>

WireNext == Serialize \/ (\E message \in Messages : Receive(message)) \/ Unpack

-----------------------------------------------------------------------------
(* decipher_response, run on one response.                                  *)

StatusCodes ==
    {0 - 1, 0, 100, 199, 200, 201, 202, 203, 204, 205, 206, 299, 300, 301, 399,
     400, 401, 404, 499, 500, 503, 599, 600}

ResponseBodies == {EmptyBody, EnvelopeBody, NoCodeBody, NoMessageBody, ListBody, HtmlBody}

HttpInit ==
    http \in [pc : {"response"}, status_code : StatusCodes, headers : ContentTypeHeaders,
              body : ResponseBodies, out : {Raise("")}]

HttpIdle ==
    http = [pc |-> "off", status_code |-> 0, headers |-> None, body |-> EmptyBody,
            out |-> Raise("")]

Decipher ==
    /\ http.pc = "response"
    /\ http' = [http EXCEPT !.pc = "done",
                            !.out = decipher_response(http.status_code, http.headers, http.body)]
    /\ UNCHANGED <<cacheVars, clientVars, dirty, wire, instances>>

HttpNext == Decipher

-----------------------------------------------------------------------------
(* The caches, used through their own methods.                              *)

\* The call that returned last.
Call(op, arg, exc, hit, val) == [op |-> op, arg |-> arg, exc |-> exc, hit |-> hit, val |-> val]

NoCall == Call("none", <<>>, "", FALSE, <<>>)

\* Some entry the maps held was given another partner.
Repaired(i2s, s2i, new_i2s, new_s2i) ==
    \/ \E i \in DOMAIN i2s : new_i2s[i] # i2s[i]
    \/ \E s \in DOMAIN s2i : new_s2i[s] # s2i[s]

\* Recording: the call that returned, and whether an insert re-paired an entry.
Returned(call) == last' = IF observing THEN call ELSE last

Inserted(ok, maps) ==
    dirty' = IF observing /\ ok
             THEN dirty \/ Repaired(id_to_schema, schema_to_id,
                                    maps.id_to_schema, maps.schema_to_id)
             ELSE dirty

DoSchemaCacheInsert(schema, schema_id) ==
    LET r == SchemaCache_insert(id_to_schema, schema_to_id, schema, schema_id)
    IN  /\ id_to_schema' = IF r.ok THEN r.val.id_to_schema ELSE id_to_schema
        /\ schema_to_id' = IF r.ok THEN r.val.schema_to_id ELSE schema_to_id
        /\ Inserted(r.ok, r.val)
        /\ Returned(Call("SchemaCache.insert", [schema |-> schema, schema_id |-> schema_id],
                         r.exc, FALSE, <<>>))
        /\ UNCHANGED <<subject_to_id, task, reqs, observing, wire, http, instances>>

DoSubjectCacheInsert(subject, version, schema_id, schema) ==
    LET r == SubjectCache_insert(id_to_schema, schema_to_id, subject_to_id,
                                 subject, version, schema_id, schema)
        maps == SubjectCache_insert_leaves(id_to_schema, schema_to_id, subject_to_id,
                                           subject, version, schema_id, schema)
    IN  /\ id_to_schema' = maps.id_to_schema
        /\ schema_to_id' = maps.schema_to_id
        /\ subject_to_id' = maps.subject_to_id
        /\ Inserted(r.ok, r.val)
        /\ Returned(Call("SubjectCache.insert",
                         [subject |-> subject, version |-> version,
                          schema_id |-> schema_id, schema |-> schema],
                         r.exc, FALSE, <<>>))
        /\ UNCHANGED <<task, reqs, observing, wire, http, instances>>

\* The lookups of the SchemaCache: schema_cache[key] and key in schema_cache,
\* with an int or a schema as the key.
DoSchemaCacheGetById(key) ==
    LET r == SchemaCache_get_by_id(id_to_schema, key)
    IN  /\ Returned(Call("SchemaCache.get_by_id", key, r.exc, FALSE, r.val))
        /\ UNCHANGED <<cacheVars, dirty, task, reqs, observing, wire, http, instances>>

DoSchemaCacheGetBySchema(key) ==
    LET r == SchemaCache_get_by_schema(schema_to_id, key)
    IN  /\ Returned(Call("SchemaCache.get_by_schema", key, r.exc, FALSE, r.val))
        /\ UNCHANGED <<cacheVars, dirty, task, reqs, observing, wire, http, instances>>

DoSchemaCacheContainsId(key) ==
    /\ Returned(Call("SchemaCache.contains_id", key, "", FALSE,
                     SchemaCache_contains_id(id_to_schema, key)))
    /\ UNCHANGED <<cacheVars, dirty, task, reqs, observing, wire, http, instances>>

DoSchemaCacheContainsSchema(key) ==
    /\ Returned(Call("SchemaCache.contains_schema", key, "", FALSE,
                     SchemaCache_contains_schema(schema_to_id, key)))
    /\ UNCHANGED <<cacheVars, dirty, task, reqs, observing, wire, http, instances>>

\* The three getters of the SubjectCache read the maps and write nothing.
DoSubjectCacheGetId(subject, version) ==
    LET r == SubjectCache_get_id(subject_to_id, subject, version)
    IN  /\ Returned(Call("SubjectCache.get_id", <<subject, version>>, r.exc, FALSE, r.val))
        /\ UNCHANGED <<cacheVars, dirty, task, reqs, observing, wire, http, instances>>

DoSubjectCacheGetSchema(subject, version) ==
    LET r == SubjectCache_get_schema(id_to_schema, subject_to_id, subject, version)
    IN  /\ Returned(Call("SubjectCache.get_schema", <<subject, version>>, r.exc, FALSE, r.val))
        /\ UNCHANGED <<cacheVars, dirty, task, reqs, observing, wire, http, instances>>

DoSubjectCacheGet(subject, version) ==
    LET r == SubjectCache_get(id_to_schema, subject_to_id, subject, version)
    IN  /\ Returned(Call("SubjectCache.get", <<subject, version>>, r.exc, FALSE, r.val))
        /\ UNCHANGED <<cacheVars, dirty, task, reqs, observing, wire, http, instances>>

OptionalIDs == {None} \cup {Some(i) : i \in IDs}

OptionalSchemas == {None} \cup {Some(schema) : schema \in Schemas}

\* The versions the SubjectCache is called with: integers, a negative one
\* among them, "latest" and another string.
InsertVersions == {V(1), V(0 - 1), Latest, VStr("1")}

CacheNext ==
    \/ \E schema \in Schemas, schema_id \in IDs : DoSchemaCacheInsert(schema, schema_id)
    \/ \E subject \in Subjects, version \in InsertVersions,
          schema_id \in OptionalIDs, schema \in OptionalSchemas :
            DoSubjectCacheInsert(subject, version, schema_id, schema)
    \/ \E key \in IDs : DoSchemaCacheGetById(key) \/ DoSchemaCacheContainsId(key)
    \/ \E key \in Schemas : DoSchemaCacheGetBySchema(key) \/ DoSchemaCacheContainsSchema(key)
    \/ \E subject \in Subjects, version \in InsertVersions :
            \/ DoSubjectCacheGetId(subject, version)
            \/ DoSubjectCacheGetSchema(subject, version)
            \/ DoSubjectCacheGet(subject, version)

-----------------------------------------------------------------------------
(* Construction.  An object is the addresses of the dicts it refers to; the *)
(* heap is the sequence of the dicts allocated so far.                      *)

NoInstances == [heap |-> <<>>, api |-> EmptyMap]

Allocated(heap, self) == [heap |-> heap, self |-> self]

\* SchemaCache.__init__
SchemaCache_init(heap) ==
    Allocated(heap \o <<EmptyMap, EmptyMap>>,
              [id_to_schema |-> Len(heap) + 1, schema_to_id |-> Len(heap) + 2])

\* SubjectCache.__init__(schema_cache)
SubjectCache_init(heap, schema_cache) ==
    Allocated(heap \o <<EmptyMap>>,
              [schema_cache |-> schema_cache, subject_to_id |-> Len(heap) + 1])

RegistryApi_init_mutant(heap) ==
    Allocated(IF heap = <<>> THEN <<EmptyMap, EmptyMap, EmptyMap>> ELSE heap,
              [schema_cache |-> [id_to_schema |-> 1, schema_to_id |-> 2],
               subject_cache |-> [schema_cache |-> [id_to_schema |-> 1, schema_to_id |-> 2],
                                  subject_to_id |-> 3]])

\* RegistryApi.__init__
RegistryApi_init(heap) ==
    LET schema_cache == SchemaCache_init(heap)
        subject_cache == SubjectCache_init(schema_cache.heap, schema_cache.self)
    IN  Allocated(subject_cache.heap,
                  [schema_cache |-> schema_cache.self, subject_cache |-> subject_cache.self])

Clients == {"c1", "c2"}

\* RegistryApi(url=...)
Construct(c) ==
    /\ c \notin DOMAIN instances.api
    /\ LET made == RegistryApi_init(instances.heap)
       IN  instances' = [heap |-> made.heap, api |-> Put(instances.api, c, made.self)]
    /\ UNCHANGED <<cacheVars, clientVars, dirty, wire, http>>

\* client.schema_cache.insert(schema, schema_id), as every operation of the
\* client that stores a schema does.
InstanceSchemaCacheInsert(c, schema, schema_id) ==
    /\ c \in DOMAIN instances.api
    /\ LET heap == instances.heap
           self == instances.api[c].schema_cache
           r == SchemaCache_insert(heap[self.id_to_schema], heap[self.schema_to_id],
                                   schema, schema_id)
       IN  instances' =
             IF r.ok
             THEN [instances EXCEPT !.heap[self.id_to_schema] = r.val.id_to_schema,
                                    !.heap[self.schema_to_id] = r.val.schema_to_id]
             ELSE instances
    /\ UNCHANGED <<cacheVars, clientVars, dirty, wire, http>>

\* client.subject_cache.insert(subject, version, schema_id=..., schema=...),
\* as get_schema_by_subject does.
InstanceSubjectCacheInsert(c, subject, version, schema_id, schema) ==
    /\ c \in DOMAIN instances.api
    /\ LET heap == instances.heap
           self == instances.api[c].subject_cache
           r == SubjectCache_insert(heap[self.schema_cache.id_to_schema],
                                    heap[self.schema_cache.schema_to_id],
                                    heap[self.subject_to_id],
                                    subject, version, schema_id, schema)
       IN  instances' =
             IF r.ok
             THEN [instances EXCEPT
                      !.heap[self.schema_cache.id_to_schema] = r.val.id_to_schema,
                      !.heap[self.schema_cache.schema_to_id] = r.val.schema_to_id,
                      !.heap[self.subject_to_id] = r.val.subject_to_id]
             ELSE instances
    /\ UNCHANGED <<cacheVars, clientVars, dirty, wire, http>>

\* The schemas stored through the clients of this section.
InstanceSchemas == {RecordA, Primitive, Malformed}

InstancesNext ==
    \E c \in Clients :
        \/ Construct(c)
        \/ \E schema \in InstanceSchemas, schema_id \in IDs :
                InstanceSchemaCacheInsert(c, schema, schema_id)
        \/ \E subject \in Subjects, version \in {V(1), Latest},
              schema_id \in OptionalIDs,
              schema \in {None} \cup {Some(schema) : schema \in InstanceSchemas} :
                InstanceSubjectCacheInsert(c, subject, version, schema_id, schema)

-----------------------------------------------------------------------------
(* RegistryApi.  A task runs one high-level operation at a time; it is     *)
(* suspended only while the transport holds its request.                    *)

Tasks == {"t1", "t2"}

\* How many requests the transport is given in one run.
MaxRequests == 2

Idle == [pc |-> "idle", arg |-> <<>>]

Count(f, k) == IF k \in DOMAIN f THEN f[k] ELSE 0

NoRequests ==
    [total |-> 0, post |-> EmptyMap, get_id |-> EmptyMap, get_subject |-> EmptyMap,
     method |-> EmptyMap]

\* What the transport makes of a request: an exception of its own, or a response.
TransportFailure == [failed |-> TRUE, status_code |-> 0, headers |-> None, body |-> EmptyBody]

Response(status_code, headers, body) ==
    [failed |-> FALSE, status_code |-> status_code, headers |-> headers, body |-> body]

\* _make_request, after the await: the deciphered response, or the exception.
_make_request_result(answer) ==
    IF answer.failed THEN Raise("TransportError")
    ELSE decipher_response(answer.status_code, answer.headers, answer.body)

ErrorAnswers ==
    {TransportFailure,
     Response(404, Some(SchemaRegistryJson), EnvelopeBody),
     Response(500, None, EmptyBody),
     Response(200, Some(SchemaRegistryJson), EmptyBody)}

\* The JSON strings the registry holds schemas as.
RegistrySchemas == {[text |-> RecordA_reordered], [text |-> Primitive]}

IdBody(schema_id) == Body(9, "{id}", PyDict(<<<<"id", schema_id>>>>))

SchemaBody(schema) == Body(60, "{schema}", PyDict(<<<<"schema", schema>>>>))

SubjectBody(schema_id, version, subject, schema) ==
    Body(120, "{id, version, subject, schema}",
         PyDict(<<<<"id", schema_id>>, <<"version", version>>,
                  <<"subject", subject>>, <<"schema", schema>>>>))

PostAnswers ==
    ErrorAnswers \cup {Response(200, Some(SchemaRegistryJson), IdBody(i)) : i \in IDs}

GetIdAnswers ==
    ErrorAnswers \cup {Response(200, Some(SchemaRegistryJson), SchemaBody(s)) : s \in RegistrySchemas}

GetSubjectAnswers ==
    ErrorAnswers \cup
    {Response(200, Some(SchemaRegistryJson), SubjectBody(i, v, subject, s)) :
        i \in IDs, v \in Versions, subject \in Subjects, s \in RegistrySchemas}

Send_shared_mutant(kind, key) ==
    IF observing
    THEN /\ reqs.total < MaxRequests
         /\ reqs' = IF Count(reqs[kind], key) > 0
                    THEN [reqs EXCEPT !.total = @ + 1]
                    ELSE [reqs EXCEPT !.total = @ + 1, ![kind] = Put(@, key, 1)]
    ELSE UNCHANGED reqs

Send_mutant(kind, key) ==
    IF observing
    THEN /\ reqs.total < MaxRequests
         /\ reqs' = [reqs EXCEPT !.total = @ + 2, ![kind] = Put(@, key, Count(@, key) + 2)]
    ELSE UNCHANGED reqs

\* A request reaches the transport.
Send(kind, key) ==
    IF observing
    THEN /\ reqs.total < MaxRequests
         /\ reqs' = [reqs EXCEPT !.total = @ + 1, ![kind] = Put(@, key, Count(@, key) + 1)]
    ELSE UNCHANGED reqs

\* The call returns (or raises).
Return(t, call) ==
    /\ Returned(call)
    /\ task' = [task EXCEPT ![t] = Idle]

register_schema_lookup_mutant(s2i, schema) == Raise("KeyError")

\* register_schema: "look in cache first"
register_schema_lookup(s2i, schema) == SchemaCache_get_by_schema(s2i, schema)

\* How register_schema goes on with a parsed schema.
Proceed(pc, exc, val) == [pc |-> pc, exc |-> exc, val |-> val]

register_schema_before_await_mutant(s2i, schema, subject) ==
    IF subject = None /\ ~HasKey(schema, "name")
    THEN Proceed("raise", "RuntimeError", 0)
    ELSE IF register_schema_lookup(s2i, schema).ok
    THEN Proceed("return", "", register_schema_lookup(s2i, schema).val)
    ELSE Proceed("await", "", 0)

\* register_schema between parse_schema and the await: the cache lookup,
\* then the subject.
register_schema_before_await(s2i, schema, subject) ==
    IF register_schema_lookup(s2i, schema).ok
    THEN Proceed("return", "", register_schema_lookup(s2i, schema).val)
    ELSE IF subject = None /\ ~HasKey(schema, "name")
    THEN Proceed("raise", "RuntimeError", 0)
    ELSE Proceed("await", "", 0)

\* register_schema up to its await.
register_schema(t, schema, subject) ==
    /\ task[t].pc = "idle"
    /\ LET parsed == parse_schema(schema)
           step == register_schema_before_await(schema_to_id, parsed.val, subject)
           key == _prep_schema(parsed.val)
       IN  IF ~parsed.ok
           THEN /\ Return(t, Call("register_schema", <<>>, parsed.exc, FALSE, <<>>))
                /\ UNCHANGED <<reqs>>
           ELSE IF step.pc = "return"
           THEN /\ Return(t, Call("register_schema", key, "", TRUE, step.val))
                /\ UNCHANGED <<reqs>>
           ELSE IF step.pc = "raise"
           THEN /\ Return(t, Call("register_schema", key, step.exc, FALSE, <<>>))
                /\ UNCHANGED <<reqs>>
           ELSE /\ Send("post", key)
                /\ task' = [task EXCEPT ![t] = [pc |-> "register_schema", arg |-> parsed.val]]
                /\ UNCHANGED <<last>>
    /\ UNCHANGED <<cacheVars, dirty, observing, wire, http, instances>>

register_schema_resume_mutant(t, answer) ==
    /\ task[t].pc = "register_schema"
    /\ LET schema == task[t].arg
           key == _prep_schema(schema)
           result == _make_request_result(answer)
           id == IF result.ok THEN Subscript(result.val, "id") ELSE result
           ins == SchemaCache_insert(id_to_schema, schema_to_id, schema, id.val)
       IN  IF ~id.ok
           THEN /\ Return(t, Call("register_schema", key, id.exc, FALSE, <<>>))
                /\ id_to_schema' = EmptyMap
                /\ schema_to_id' = EmptyMap
                /\ UNCHANGED <<subject_to_id, dirty>>
           ELSE /\ id_to_schema' = ins.val.id_to_schema
                /\ schema_to_id' = ins.val.schema_to_id
                /\ Inserted(TRUE, ins.val)
                /\ Return(t, Call("register_schema", key, "", FALSE, id.val))
                /\ UNCHANGED <<subject_to_id>>
    /\ UNCHANGED <<reqs, observing, wire, http, instances>>

\* register_schema from the transport's answer on.
register_schema_resume(t, answer) ==
    /\ task[t].pc = "register_schema"
    /\ LET schema == task[t].arg
           key == _prep_schema(schema)
           result == _make_request_result(answer)
           id == IF result.ok THEN Subscript(result.val, "id") ELSE result
           ins == SchemaCache_insert(id_to_schema, schema_to_id, schema, id.val)
       IN  IF ~id.ok
           THEN /\ Return(t, Call("register_schema", key, id.exc, FALSE, <<>>))
                /\ UNCHANGED <<cacheVars, dirty>>
           ELSE /\ id_to_schema' = ins.val.id_to_schema
                /\ schema_to_id' = ins.val.schema_to_id
                /\ Inserted(TRUE, ins.val)
                /\ Return(t, Call("register_schema", key, "", FALSE, id.val))
                /\ UNCHANGED <<subject_to_id>>
    /\ UNCHANGED <<reqs, observing, wire, http, instances>>


get_schema_by_id_lookup_mutant(i2s, schema_id) == Raise("KeyError")

\* get_schema_by_id: "Look in the cache first"
get_schema_by_id_lookup(i2s, schema_id) == SchemaCache_get_by_id(i2s, schema_id)

\* get_schema_by_id up to its await.
get_schema_by_id(t, schema_id) ==
    /\ task[t].pc = "idle"
    /\ LET cached == get_schema_by_id_lookup(id_to_schema, schema_id)
       IN  IF cached.ok
           THEN /\ Return(t, Call("get_schema_by_id", schema_id, "", TRUE, cached.val))
                /\ UNCHANGED <<reqs>>
           ELSE /\ Send("get_id", schema_id)
                /\ task' = [task EXCEPT ![t] = [pc |-> "get_schema_by_id", arg |-> schema_id]]
                /\ UNCHANGED <<last>>
    /\ UNCHANGED <<cacheVars, dirty, observing, wire, http, instances>>

\* fastavro.parse_schema(json.loads(result["schema"]))
ParseAnswerSchema(result) ==
    LET text == Subscript(result, "schema")
    IN  IF text.ok THEN parse_schema(json_loads(text.val)) ELSE text

get_schema_by_id_resume_mutant(t, answer) ==
    /\ task[t].pc = "get_schema_by_id"
    /\ LET schema_id == task[t].arg
           result == _make_request_result(answer)
           schema == IF result.ok THEN ParseAnswerSchema(result.val) ELSE result
           ins == SchemaCache_insert(id_to_schema, schema_to_id, schema.val, schema_id)
       IN  IF ~schema.ok
           THEN /\ Return(t, Call("get_schema_by_id", schema_id, schema.exc, FALSE, <<>>))
                /\ UNCHANGED <<cacheVars, dirty>>
           ELSE /\ id_to_schema' = ins.val.id_to_schema
                /\ schema_to_id' = ins.val.schema_to_id
                /\ Inserted(TRUE, ins.val)
                /\ Return(t, Call("get_schema_by_id", schema_id, "", FALSE, schema.val))
                /\ subject_to_id' = Put(subject_to_id, <<"s1", V(1)>>, schema_id)
    /\ UNCHANGED <<reqs, observing, wire, http, instances>>

\* get_schema_by_id from the transport's answer on.
get_schema_by_id_resume(t, answer) ==
    /\ task[t].pc = "get_schema_by_id"
    /\ LET schema_id == task[t].arg
           result == _make_request_result(answer)
           schema == IF result.ok THEN ParseAnswerSchema(result.val) ELSE result
           ins == SchemaCache_insert(id_to_schema, schema_to_id, schema.val, schema_id)
       IN  IF ~schema.ok
           THEN /\ Return(t, Call("get_schema_by_id", schema_id, schema.exc, FALSE, <<>>))
                /\ UNCHANGED <<cacheVars, dirty>>
           ELSE /\ id_to_schema' = ins.val.id_to_schema
                /\ schema_to_id' = ins.val.schema_to_id
                /\ Inserted(TRUE, ins.val)
                /\ Return(t, Call("get_schema_by_id", schema_id, "", FALSE, schema.val))
                /\ UNCHANGED <<subject_to_id>>
    /\ UNCHANGED <<reqs, observing, wire, http, instances>>

get_schema_by_subject_lookup_mutant(i2s, sub, subject, version) == Raise("ValueError")

\* get_schema_by_subject: "return self.subject_cache.get(subject, version)"
get_schema_by_subject_lookup(i2s, sub, subject, version) ==
    SubjectCache_get(i2s, sub, subject, version)

\* get_schema_by_subject up to its await.
get_schema_by_subject(t, subject, version) ==
    /\ task[t].pc = "idle"
    /\ LET cached == get_schema_by_subject_lookup(id_to_schema, subject_to_id, subject, version)
       IN  IF cached.ok
           THEN /\ Return(t, Call("get_schema_by_subject", <<subject, version>>, "", TRUE,
                                  cached.val))
                /\ UNCHANGED <<reqs>>
           ELSE /\ Send("get_subject", <<subject, version>>)
                /\ task' = [task EXCEPT ![t] = [pc |-> "get_schema_by_subject",
                                                arg |-> <<subject, version>>]]
                /\ UNCHANGED <<last>>
    /\ UNCHANGED <<cacheVars, dirty, observing, wire, http, instances>>

\* The four fields get_schema_by_subject reads from the answer, or the
\* exception the first unreadable one raises.
SubjectAnswer(result) ==
    LET schema == ParseAnswerSchema(result)
        subject == Subscript(result, "subject")
        version == Subscript(result, "version")
        id == Subscript(result, "id")
    IN  IF ~schema.ok THEN schema
        ELSE IF ~subject.ok THEN subject
        ELSE IF ~version.ok THEN version
        ELSE IF ~id.ok THEN id
        ELSE Ok([id |-> id.val, version |-> version.val, subject |-> subject.val,
                 schema |-> schema.val])

\* get_schema_by_subject from the transport's answer on.
get_schema_by_subject_resume(t, answer) ==
    /\ task[t].pc = "get_schema_by_subject"
    /\ LET key == task[t].arg
           result == _make_request_result(answer)
           info == IF result.ok THEN SubjectAnswer(result.val) ELSE result
           ins == SubjectCache_insert(id_to_schema, schema_to_id, subject_to_id,
                                      info.val.subject, info.val.version,
                                      Some(info.val.id), Some(info.val.schema))
       IN  IF ~info.ok
           THEN /\ Return(t, Call("get_schema_by_subject", key, info.exc, FALSE, <<>>))
                /\ UNCHANGED <<cacheVars, dirty>>
           ELSE IF ins.ok
           THEN /\ id_to_schema' = ins.val.id_to_schema
                /\ schema_to_id' = ins.val.schema_to_id
                /\ subject_to_id' = ins.val.subject_to_id
                /\ Inserted(TRUE, ins.val)
                /\ Return(t, Call("get_schema_by_subject", key, "", FALSE, info.val))
           ELSE IF ins.exc = "TypeError"
           THEN /\ Return(t, Call("get_schema_by_subject", key, "", FALSE, info.val))
                /\ UNCHANGED <<cacheVars, dirty>>
           ELSE /\ Return(t, Call("get_schema_by_subject", key, ins.exc, FALSE, <<>>))
                /\ UNCHANGED <<cacheVars, dirty>>
    /\ UNCHANGED <<reqs, observing, wire, http, instances>>

\* The versions callers ask for; the registry answers with any of Versions.
RequestedVersions == {V(1), Latest}

OptionalSubjects == {None} \cup {Some(subject) : subject \in Subjects}

ClientNext ==
    \E t \in Tasks :
        \/ \E schema \in Schemas, subject \in OptionalSubjects : register_schema(t, schema, subject)
        \/ \E answer \in PostAnswers : register_schema_resume(t, answer)
        \/ \E schema_id \in IDs : get_schema_by_id(t, schema_id)
        \/ \E answer \in GetIdAnswers : get_schema_by_id_resume(t, answer)
        \/ \E subject \in Subjects, version \in RequestedVersions :
                get_schema_by_subject(t, subject, version)
        \/ \E answer \in GetSubjectAnswers : get_schema_by_subject_resume(t, answer)

-----------------------------------------------------------------------------
(* Specifications.                                                          *)

ClientInit ==
    /\ id_to_schema = EmptyMap
    /\ schema_to_id = EmptyMap
    /\ subject_to_id = EmptyMap
    /\ task = [t \in Tasks |-> Idle]
    /\ reqs = NoRequests
    /\ last = NoCall
    /\ dirty = FALSE
    /\ instances = NoInstances

Init == ClientInit /\ observing = TRUE /\ WireIdle /\ HttpIdle

Next == ClientNext

\* One client, its operations called by concurrent tasks.
Spec == Init /\ [][Next]_vars

\* The two caches, driven through their own methods.
SpecCache == Init /\ [][CacheNext]_vars

AllNext == ClientNext \/ CacheNext

\* Nothing but the caches is recorded.
InitAll == ClientInit /\ observing = FALSE /\ WireIdle /\ HttpIdle

\* The client's operations and direct use of its caches, interleaved.
SpecAll == InitAll /\ [][AllNext]_vars

\* Clients constructed and used side by side.
SpecInstances == Init /\ [][InstancesNext]_vars

\* One record to serialize, or one message received.
InitWire == ClientInit /\ observing = TRUE /\ WireInit /\ HttpIdle

\* A producer's serializer and a consumer's deserializer on one message.
SpecWire == InitWire /\ [][WireNext]_vars

\* One response of the registry.
InitHttp == ClientInit /\ observing = TRUE /\ WireIdle /\ HttpInit

\* decipher_response on one response.
SpecHttp == InitHttp /\ [][HttpNext]_vars

-----------------------------------------------------------------------------
(* The verb helpers of RegistryApi: get, post, patch, put and delete.       *)

Verbs == {"get", "post", "patch", "put", "delete"}

\* The method each helper hands to _make_request.
Methods ==
    [get |-> "GET", post |-> "POST", patch |-> "PATCH", put |-> "PUT", delete |-> "DELETE"]

verb_method_mutant(verb) == IF verb = "put" THEN "PATCH" ELSE Methods[verb]

verb_method(verb) == Methods[verb]

\* b"", the default of put and delete, and a JSON-serializable object.
NoData == [empty |-> TRUE, json |-> <<>>]

RequestData == {NoData, [empty |-> FALSE, json |-> <<<<"compatibility", "FULL">>>>]}

\* The data each helper hands to _make_request: get has no data parameter.
verb_data(verb, data) == IF verb = "get" THEN NoData ELSE data

verb_return_mutant(verb, response_data) ==
    IF verb \in {"get", "post"} \/ ~response_data.ok THEN response_data ELSE Ok(PyNone)

\* "data = await self._make_request(...); return data"
verb_return(verb, response_data) == response_data

\* A verb helper up to the await in _make_request.
verb_call(t, verb, data) ==
    /\ task[t].pc = "idle"
    /\ Send("method", verb_method(verb))
    /\ task' = [task EXCEPT ![t] =
                   [pc |-> "verb",
                    arg |-> [verb |-> verb, method |-> verb_method(verb),
                             data |-> verb_data(verb, data)]]]
    /\ UNCHANGED <<cacheVars, last, dirty, observing, wire, http, instances>>

\* A verb helper from the transport's answer on.
verb_resume(t, answer) ==
    /\ task[t].pc = "verb"
    /\ LET verb == task[t].arg.verb
           out == verb_return(verb, _make_request_result(answer))
       IN  Return(t, Call(verb, [request |-> task[t].arg, answer |-> answer],
                          out.exc, FALSE, out.val))
    /\ UNCHANGED <<cacheVars, reqs, dirty, observing, wire, http, instances>>

VerbsNext ==
    \E t \in Tasks :
        \/ \E verb \in Verbs, data \in RequestData : verb_call(t, verb, data)
        \/ \E answer \in PostAnswers : verb_resume(t, answer)

\* The verb helpers, called by concurrent tasks.
SpecVerbs == Init /\ [][VerbsNext]_vars

-----------------------------------------------------------------------------
(* PolySerializer and Deserializer, bound to the client.  fastavro's        *)
(* schemaless codec is taken as a pair of inverse functions: a datum is the *)
(* Avro type it conforms to and the bytes it is written as.                 *)

Datum(type, avro) == [t |-> type, avro |-> avro]

DatumRecord == Datum("record", <<84, 6>>)

DatumString == Datum("string", <<2, 97>>)

Datums == {DatumRecord, DatumString}

\* fastavro.schemaless_writer(message_fh, schema, data)
schemaless_writer(schema, data) ==
    IF Get(schema, "type") = data.t THEN Ok(data.avro) ELSE Raise("ValueError")

\* fastavro.schemaless_reader(message_fh, schema)
schemaless_reader(schema, avro) ==
    IF \E d \in Datums : d.t = Get(schema, "type") /\ d.avro = avro
    THEN Ok(CHOOSE d \in Datums : d.t = Get(schema, "type") /\ d.avro = avro)
    ELSE Raise("EOFError")

\* A Python int below 2^32 as the two halves the wire codec works on, and back.
ToInt32(n) == Int32(n \div 65536, n % 65536)

PyInt(n) == n.hi * 65536 + n.lo

\* _make_message(data=data, schema_id=schema_id, schema=schema)
make_message(schema_id, schema, data) ==
    LET prefix == pack_wire_format_prefix(ToInt32(schema_id))
        avro == schemaless_writer(schema, data)
    IN  IF ~prefix.ok THEN prefix
        ELSE IF ~avro.ok THEN avro
        ELSE _make_message(ToInt32(schema_id), avro.val)

\* What serialize returned with, and which client operation it went through.
Serialized(via, message) == [via |-> via, message |-> message]

\* "if schema is None or schema_id is None"
serialize_check(schema, schema_id) == schema = None \/ schema_id = None

serialize_finish_mutant(t, arg, via, schema, schema_id) ==
    Return(t, Call("PolySerializer.serialize", arg, "", FALSE, Serialized(via, <<>>)))

\* PolySerializer.serialize from the end of its if/elif on; schema and
\* schema_id are Optionals.
serialize_finish(t, arg, via, schema, schema_id) ==
    LET message == make_message(schema_id[1], schema[1], arg.data)
    IN  IF serialize_check(schema, schema_id)
        THEN Return(t, Call("PolySerializer.serialize", arg, "RuntimeError", FALSE,
                            Serialized(via, <<>>)))
        ELSE Return(t, Call("PolySerializer.serialize", arg, message.exc, FALSE,
                            Serialized(via, message.val)))

serialize_branch_mutant(schema, schema_id) ==
    IF schema # None THEN "register_schema"
    ELSE IF schema_id # None THEN "get_schema_by_id"
    ELSE "none"

\* "if schema_id is not None: ... elif schema is not None: ..."
serialize_branch(schema, schema_id) ==
    IF schema_id # None THEN "get_schema_by_id"
    ELSE IF schema # None THEN "register_schema"
    ELSE "none"

\* PolySerializer.serialize up to the await its client operation suspends on.
PolySerializer_serialize(t, data, schema, schema_id, subject) ==
    /\ task[t].pc = "idle"
    /\ LET arg == [data |-> data, schema |-> schema, schema_id |-> schema_id,
                   subject |-> subject]
           via == serialize_branch(schema, schema_id)
       IN  IF via = "get_schema_by_id"
           THEN LET cached == get_schema_by_id_lookup(id_to_schema, schema_id[1])
                IN  IF cached.ok
                    THEN /\ serialize_finish(t, arg, via, Some(cached.val), schema_id)
                         /\ UNCHANGED <<reqs>>
                    ELSE /\ Send("get_id", schema_id[1])
                         /\ task' = [task EXCEPT ![t] =
                                        [pc |-> "serialize:get_schema_by_id", arg |-> arg]]
                         /\ UNCHANGED <<last>>
           ELSE IF via = "register_schema"
           THEN LET parsed == parse_schema(schema[1])
                    cached == register_schema_lookup(schema_to_id, parsed.val)
                IN  IF ~parsed.ok
                    THEN /\ Return(t, Call("PolySerializer.serialize", arg, parsed.exc, FALSE,
                                           Serialized(via, <<>>)))
                         /\ UNCHANGED <<reqs>>
                    ELSE IF cached.ok
                    THEN /\ serialize_finish(t, arg, via, schema, Some(cached.val))
                         /\ UNCHANGED <<reqs>>
                    ELSE IF subject = None /\ ~HasKey(parsed.val, "name")
                    THEN /\ Return(t, Call("PolySerializer.serialize", arg, "RuntimeError",
                                           FALSE, Serialized(via, <<>>)))
                         /\ UNCHANGED <<reqs>>
                    ELSE /\ Send("post", _prep_schema(parsed.val))
                         /\ task' = [task EXCEPT ![t] =
                                        [pc |-> "serialize:register_schema", arg |-> arg]]
                         /\ UNCHANGED <<last>>
           ELSE /\ serialize_finish(t, arg, via, schema, schema_id)
                /\ UNCHANGED <<reqs>>
    /\ UNCHANGED <<cacheVars, dirty, observing, wire, http, instances>>

\* PolySerializer.serialize from the answer to get_schema_by_id's GET on.
serialize_get_schema_by_id_resume(t, answer) ==
    /\ task[t].pc = "serialize:get_schema_by_id"
    /\ LET arg == task[t].arg
           schema_id == arg.schema_id[1]
           result == _make_request_result(answer)
           schema == IF result.ok THEN ParseAnswerSchema(result.val) ELSE result
           ins == SchemaCache_insert(id_to_schema, schema_to_id, schema.val, schema_id)
       IN  IF ~schema.ok
           THEN /\ Return(t, Call("PolySerializer.serialize", arg, schema.exc, FALSE,
                                  Serialized("get_schema_by_id", <<>>)))
                /\ UNCHANGED <<cacheVars, dirty>>
           ELSE /\ id_to_schema' = ins.val.id_to_schema
                /\ schema_to_id' = ins.val.schema_to_id
                /\ Inserted(TRUE, ins.val)
                /\ serialize_finish(t, arg, "get_schema_by_id", Some(schema.val),
                                    arg.schema_id)
                /\ UNCHANGED <<subject_to_id>>
    /\ UNCHANGED <<reqs, observing, wire, http, instances>>

\* PolySerializer.serialize from the answer to register_schema's POST on.
serialize_register_schema_resume(t, answer) ==
    /\ task[t].pc = "serialize:register_schema"
    /\ LET arg == task[t].arg
           schema == parse_schema(arg.schema[1]).val
           result == _make_request_result(answer)
           id == IF result.ok THEN Subscript(result.val, "id") ELSE result
           ins == SchemaCache_insert(id_to_schema, schema_to_id, schema, id.val)
       IN  IF ~id.ok
           THEN /\ Return(t, Call("PolySerializer.serialize", arg, id.exc, FALSE,
                                  Serialized("register_schema", <<>>)))
                /\ UNCHANGED <<cacheVars, dirty>>
           ELSE /\ id_to_schema' = ins.val.id_to_schema
                /\ schema_to_id' = ins.val.schema_to_id
                /\ Inserted(TRUE, ins.val)
                /\ serialize_finish(t, arg, "register_schema", arg.schema, Some(id.val))
                /\ UNCHANGED <<subject_to_id>>
    /\ UNCHANGED <<reqs, observing, wire, http, instances>>

include_schema_mutant(include_schema) == TRUE

\* "if include_schema:"
include_schema_test(include_schema) == include_schema

\* Deserializer.deserialize from the schema on: the result dict.
deserialize_finish(t, arg, schema) ==
    LET unpacked == unpack_wire_format_data(arg.data).val
        message == schemaless_reader(schema, unpacked.message_body)
        result == <<<<"id", PyInt(unpacked.schema_id)>>, <<"message", message.val>>>>
                    \o (IF include_schema_test(arg.include_schema)
                        THEN <<<<"schema", schema>>>> ELSE <<>>)
    IN  IF ~message.ok
        THEN Return(t, Call("Deserializer.deserialize", arg, message.exc, FALSE, <<>>))
        ELSE Return(t, Call("Deserializer.deserialize", arg, "", FALSE, result))

\* Deserializer.deserialize up to the await get_schema_by_id suspends on.
Deserializer_deserialize(t, data, include_schema) ==
    /\ task[t].pc = "idle"
    /\ LET arg == [data |-> data, include_schema |-> include_schema]
           unpacked == unpack_wire_format_data(data)
           schema_id == PyInt(unpacked.val.schema_id)
           cached == get_schema_by_id_lookup(id_to_schema, schema_id)
       IN  IF ~unpacked.ok
           THEN /\ Return(t, Call("Deserializer.deserialize", arg, unpacked.exc, FALSE, <<>>))
                /\ UNCHANGED <<reqs>>
           ELSE IF cached.ok
           THEN /\ deserialize_finish(t, arg, cached.val)
                /\ UNCHANGED <<reqs>>
           ELSE /\ Send("get_id", schema_id)
                /\ task' = [task EXCEPT ![t] =
                               [pc |-> "deserialize:get_schema_by_id", arg |-> arg]]
                /\ UNCHANGED <<last>>
    /\ UNCHANGED <<cacheVars, dirty, observing, wire, http, instances>>

\* Deserializer.deserialize from the answer to get_schema_by_id's GET on.
deserialize_resume(t, answer) ==
    /\ task[t].pc = "deserialize:get_schema_by_id"
    /\ LET arg == task[t].arg
           schema_id == PyInt(unpack_wire_format_data(arg.data).val.schema_id)
           result == _make_request_result(answer)
           schema == IF result.ok THEN ParseAnswerSchema(result.val) ELSE result
           ins == SchemaCache_insert(id_to_schema, schema_to_id, schema.val, schema_id)
       IN  IF ~schema.ok
           THEN /\ Return(t, Call("Deserializer.deserialize", arg, schema.exc, FALSE, <<>>))
                /\ UNCHANGED <<cacheVars, dirty>>
           ELSE /\ id_to_schema' = ins.val.id_to_schema
                /\ schema_to_id' = ins.val.schema_to_id
                /\ Inserted(TRUE, ins.val)
                /\ deserialize_finish(t, arg, schema.val)
                /\ UNCHANGED <<subject_to_id>>
    /\ UNCHANGED <<reqs, observing, wire, http, instances>>

\* The schemas serialize is handed, None among them.
SerializeSchemas == {None, Some(RecordA), Some(Primitive), Some(Malformed)}

\* What a consumer receives: what a serializer wrote for a datum under a
\* schema ID, a message with an unreadable body, and one that is too short.
ReceivedMessages ==
    {_make_message(ToInt32(i), d.avro).val : i \in IDs, d \in Datums}
        \cup {<<0, 0, 0, 0, 1>>, <<0, 0>>}

\* One producer-consumer task: serialize and deserialize are not raced here.
SerdeTasks == {"t1"}

SerdeNext ==
    \E t \in SerdeTasks :
        \/ \E data \in Datums, schema \in SerializeSchemas, schema_id \in OptionalIDs,
              subject \in OptionalSubjects :
                PolySerializer_serialize(t, data, schema, schema_id, subject)
        \/ \E answer \in GetIdAnswers : serialize_get_schema_by_id_resume(t, answer)
        \/ \E answer \in PostAnswers : serialize_register_schema_resume(t, answer)
        \/ \E data \in ReceivedMessages, include_schema \in BOOLEAN :
                Deserializer_deserialize(t, data, include_schema)
        \/ \E answer \in GetIdAnswers : deserialize_resume(t, answer)

\* Producers and consumers sharing one client.
SpecSerde == Init /\ [][SerdeNext]_vars

-----------------------------------------------------------------------------
(* Properties.                                                              *)

\* The tasks whose POST for this schema the transport holds.
Posting(key) ==
    {t \in Tasks : task[t].pc = "register_schema" /\ _prep_schema(task[t].arg) = key}

\* The registration keys of the schemas the Schema Cache holds.
CachedPostKeys == {_prep_schema(json_loads(s)) : s \in DOMAIN schema_to_id}

\* C1 as stated: tasks that call register_schema concurrently with one
\* uncached schema have sent at most one POST between them.
C1_OnePostForConcurrentCalls ==
    \A key \in DOMAIN reqs.post :
        Cardinality(Posting(key)) >= 2 => reqs.post[key] <= 1

\* C1, amended: a register_schema call sends at most one POST, and only when
\* its cache check finds the schema absent; calls that check before the first
\* answer is inserted each send their own, up to one POST per concurrent call.
C1_OnePostPerMissingCall ==
    [][\A key \in DOMAIN reqs'.post :
          Count(reqs'.post, key) # Count(reqs.post, key) =>
              /\ key \notin CachedPostKeys
              /\ Count(reqs'.post, key) = Count(reqs.post, key) + 1
              /\ \E t \in Tasks : /\ task[t].pc = "idle"
                                  /\ Posting(key)' = Posting(key) \cup {t}
              /\ Cardinality(Posting(key)') <= Cardinality(Tasks)]_vars

\* Two calls are in flight with the same schema and both have sent their POST.
C1_Witness ==
    \E key \in DOMAIN reqs.post : Cardinality(Posting(key)) = 2 /\ reqs.post[key] = 2

\* C2 as stated: no request is ever sent twice: not a registration of one
\* canonical schema, not a fetch of one ID, not a fetch of one (subject, version).
C2_OneRequestPerKey ==
    /\ \A key \in DOMAIN reqs.post : reqs.post[key] <= 1
    /\ \A key \in DOMAIN reqs.get_id : reqs.get_id[key] <= 1
    /\ \A key \in DOMAIN reqs.get_subject : key[2].isint => reqs.get_subject[key] <= 1

\* The call that just returned got its result from the transport.
Fetched(op) == last.op = op /\ last.exc = "" /\ ~last.hit

\* C2, amended: a request is sent for a schema, an ID or a concrete
\* (subject, version) only while the cache does not hold it, the caches never
\* lose an entry, and a successful answer puts the schema, the ID or the
\* (subject, version) the answer names into the cache: once a request for a
\* key has succeeded no other is sent for it.  Requests that failed, or that
\* were sent before the first answer came, are repeated.
C2_NoRequestOnceCached ==
    [][/\ \A key \in DOMAIN reqs'.post :
             Count(reqs'.post, key) # Count(reqs.post, key) => key \notin CachedPostKeys
       /\ \A key \in DOMAIN reqs'.get_id :
             Count(reqs'.get_id, key) # Count(reqs.get_id, key) =>
                 key \notin DOMAIN id_to_schema
       /\ \A key \in DOMAIN reqs'.get_subject :
             Count(reqs'.get_subject, key) # Count(reqs.get_subject, key) =>
                 ~(key[2].isint /\ key \in DOMAIN subject_to_id)
       /\ CachedPostKeys \subseteq CachedPostKeys'
       /\ DOMAIN id_to_schema \subseteq DOMAIN id_to_schema'
       /\ DOMAIN subject_to_id \subseteq DOMAIN subject_to_id'
       /\ Fetched("register_schema")' => last'.arg \in CachedPostKeys'
       /\ Fetched("get_schema_by_id")' => last'.arg \in DOMAIN id_to_schema'
       /\ (Fetched("get_schema_by_subject")' /\ last'.val.version.isint) =>
             <<last'.val.subject, last'.val.version>> \in DOMAIN subject_to_id']_vars

\* A registration succeeded, was served from the cache afterwards, and one
\* POST is all the transport ever saw.
C2_Witness ==
    /\ last.op = "register_schema" /\ last.exc = "" /\ last.hit
    /\ reqs.total = 1
    /\ Count(reqs.post, last.arg) = 1

\* This step is a register_schema call with the schema of this key: it
\* either suspends on its POST or returns at once.
RegisterCalled(key) ==
    \E t \in Tasks :
        /\ task[t].pc = "idle"
        /\ \/ /\ task'[t].pc = "register_schema"
              /\ _prep_schema(task'[t].arg) = key
           \/ /\ \A u \in Tasks : task'[u].pc = task[u].pc
              /\ last'.op = "register_schema"
              /\ last'.exc # "SchemaParseException"
              /\ last'.arg = key

\* C3: when a register_schema call has just returned ID i from a POST, a call
\* that follows it with a structurally identical schema sends nothing and
\* returns i from the Schema Cache.
C3_SecondRegisterFromCache ==
    [][(Fetched("register_schema") /\ RegisterCalled(last.arg))
          => /\ reqs' = reqs
             /\ Count(reqs.post, last.arg) >= 1
             /\ last'.op = "register_schema" /\ last'.exc = "" /\ last'.hit
             /\ last'.val = last.val]_vars

\* The first call was answered by the transport, the call after it by the
\* cache, and the transport saw one POST.
C3_Witness ==
    /\ last.op = "register_schema" /\ last.exc = "" /\ last.hit
    /\ last.arg = _prep_schema(RecordA) /\ last.val = 2
    /\ reqs.total = 1
    /\ Count(reqs.post, _prep_schema(RecordA)) = 1
    /\ \A t \in Tasks : task[t].pc = "idle"

\* The two maps of the Schema Cache hold the same pairs.
MapsAgree ==
    /\ \A i \in DOMAIN id_to_schema :
          id_to_schema[i] \in DOMAIN schema_to_id /\ schema_to_id[id_to_schema[i]] = i
    /\ \A s \in DOMAIN schema_to_id :
          schema_to_id[s] \in DOMAIN id_to_schema /\ id_to_schema[schema_to_id[s]] = s

\* C4 as stated: after any inserts, those that give an ID another schema or
\* a schema another ID included, id_to_schema[i] = s iff schema_to_id[s] = i.
C4_MapsAlwaysAgree == MapsAgree

\* C4, amended: the two maps agree after any sequence of inserts none of
\* which gave a cached ID another schema or a cached schema another ID.
C4_MapsAgreeUnlessRepaired == ~dirty => MapsAgree

\* Two pairs were inserted, none re-paired.
C4_Witness ==
    /\ ~dirty
    /\ last.op \in {"SchemaCache.insert", "SubjectCache.insert"} /\ last.exc = ""
    /\ Cardinality(DOMAIN id_to_schema) = 2
    /\ Cardinality(DOMAIN schema_to_id) = 2

\* C5: right after insert(schema, id) returns, whatever the cache held,
\* get_by_id(id) is canonicalization-equal to schema and get_by_schema gives
\* id, for the schema as it was passed and for its parsed form.
C5_InsertThenLookup ==
    (last.op = "SchemaCache.insert" /\ last.exc = "") =>
        LET schema == last.arg.schema
            schema_id == last.arg.schema_id
            by_id == SchemaCache_get_by_id(id_to_schema, schema_id)
        IN  /\ by_id.ok
            /\ CanonEqual(by_id.val, schema)
            /\ SchemaCache_contains_id(id_to_schema, schema_id)
            /\ SchemaCache_get_by_schema(schema_to_id, schema) = Ok(schema_id)
            /\ SchemaCache_get_by_schema(schema_to_id, parse_schema(schema).val) = Ok(schema_id)
            /\ SchemaCache_get_by_schema(schema_to_id, by_id.val) = Ok(schema_id)

\* The insert gave a cached schema another ID and was passed the schema with
\* its keys in another order than the cache stores them.
C5_Witness ==
    /\ last.op = "SchemaCache.insert" /\ last.exc = ""
    /\ last.arg.schema = RecordA_reordered /\ last.arg.schema_id = 2
    /\ dirty
    /\ 1 \in DOMAIN id_to_schema /\ CanonEqual(json_loads(id_to_schema[1]), RecordA)

\* C6: every (subject, version) the Subject Cache holds maps to an ID that
\* get_by_id resolves, so get_schema and get succeed for it, whatever the
\* inserts and client operations that came before and however interleaved.
C6_SubjectIdsResolvable ==
    \A key \in DOMAIN subject_to_id :
        /\ SubjectCache_contains(subject_to_id, key)
        /\ SchemaCache_get_by_id(id_to_schema, subject_to_id[key]).ok
        /\ SubjectCache_get_schema(id_to_schema, subject_to_id, key[1], key[2]).ok
        /\ SubjectCache_get(id_to_schema, subject_to_id, key[1], key[2]).ok
        /\ SubjectCache_get(id_to_schema, subject_to_id, key[1], key[2]).val.id = subject_to_id[key]

\* Both versions of the subject are cached while one task awaits the
\* registry and the Schema Cache has seen a schema change its ID.
C6_Witness ==
    /\ Cardinality(DOMAIN subject_to_id) = 2
    /\ \E t \in Tasks : task[t].pc = "get_schema_by_subject"
    /\ \E s \in DOMAIN schema_to_id : id_to_schema[schema_to_id[s]] # s

\* The bytes an identity byte can be replaced by.
IdentityBytes == {0, 1, 127, 128, 255}

\* C7: for every schema ID of [0, 2^32) and every payload, the empty one
\* included, unpacking pack_wire_format_prefix(id) + payload gives back
\* exactly (id, payload).
C7_WireRoundTrip ==
    /\ (wire.pc = "failed") => ~InUInt32(wire.schema_id)
    /\ (wire.pc = "done" /\ wire.sent) =>
          /\ InUInt32(wire.schema_id)
          /\ wire.data = pack_wire_format_prefix(wire.schema_id).val \o wire.avro
          /\ wire.out = Ok([schema_id |-> wire.schema_id, message_body |-> wire.avro])

\* The largest ID went through the round trip with an empty payload.
C7_Witness ==
    /\ wire.pc = "done" /\ wire.sent
    /\ wire.schema_id = Int32(65535, 65535) /\ wire.avro = <<>>
    /\ wire.out.ok

\* C8: unpack_wire_format_data raises RuntimeError exactly when the message
\* has fewer than 5 bytes; a message of 5 bytes or more is unpacked whatever
\* its first byte, and the ID and the remainder do not depend on that byte.
C8_UnpackFailsIffShort ==
    (wire.pc = "done") =>
        /\ (~wire.out.ok /\ wire.out.exc = "RuntimeError") <=> (Len(wire.data) < 5)
        /\ Len(wire.data) >= 5 =>
              /\ wire.out.ok
              /\ wire.out.val.message_body = SubSeq(wire.data, 6, Len(wire.data))
              /\ \A b \in IdentityBytes :
                    unpack_wire_format_data(<<b>> \o Tail(wire.data)) = wire.out

\* A message whose first byte is not 0 was unpacked.
C8_Witness ==
    /\ wire.pc = "done" /\ ~wire.sent
    /\ Len(wire.data) >= 5 /\ wire.data[1] # 0
    /\ wire.out.ok

\* C9: for every schema ID of [0, 2^32) the prefix has exactly 5 bytes, the
\* first is 0 and the next four are the ID, most significant byte first; the
\* message a serializer produces starts with that prefix, so with byte 0.
C9_PrefixLayout ==
    /\ (wire.pc = "start" /\ InUInt32(wire.schema_id)) =>
          LET prefix == pack_wire_format_prefix(wire.schema_id)
          IN  /\ prefix.ok
              /\ Len(prefix.val) = 5
              /\ \A n \in 1..5 : prefix.val[n] \in 0..255
              /\ prefix.val[1] = 0
              /\ wire.schema_id.hi = prefix.val[2] * 256 + prefix.val[3]
              /\ wire.schema_id.lo = prefix.val[4] * 256 + prefix.val[5]
    /\ (wire.pc # "start" /\ wire.sent) =>
          /\ Len(wire.data) = 5 + Len(wire.avro)
          /\ wire.data[1] = 0
          /\ wire.schema_id.hi = wire.data[2] * 256 + wire.data[3]
          /\ wire.schema_id.lo = wire.data[4] * 256 + wire.data[5]
          /\ SubSeq(wire.data, 6, Len(wire.data)) = wire.avro

\* A serializer produced the message of an ID above 2^31.
C9_Witness ==
    /\ wire.pc = "message" /\ wire.sent
    /\ wire.schema_id = Int32(32768, 1)
    /\ wire.data = <<0, 128, 0, 0, 1>> \o wire.avro

Envelope(data) == data.t = "dict" /\ HasKey(data.v, "error_code") /\ HasKey(data.v, "message")

\* C11: a 4XX or 5XX response raises RegistryBadRequestError or
\* RegistryBrokenError, with the body's error_code and message when the body
\* is a mapping that has both and with None for both in every other case: no
\* other exception takes the place of the one the status calls for.
C11_ErrorEnvelope ==
    (http.pc = "done" /\ http.status_code >= 400) =>
        LET decoded == decode_body(http.headers, http.body)
            out == http.out
        IN  /\ out.exc = IF http.status_code >= 500 THEN "RegistryBrokenError"
                         ELSE "RegistryBadRequestError"
            /\ out.status_code = http.status_code
            /\ IF decoded.ok /\ Envelope(decoded.val)
               THEN /\ out.error_code = Some(Get(decoded.val.v, "error_code"))
                    /\ out.message = Some(Get(decoded.val.v, "message"))
               ELSE out.error_code = None /\ out.message = None

\* C11 on the responses whose body decode_body can decode.
C11_ErrorEnvelopeOfDecodedBody ==
    (http.pc = "done" /\ http.status_code >= 400
        /\ decode_body(http.headers, http.body).ok) => C11_ErrorEnvelope

\* C12: a 3XX response raises RegistryRedirectionError with the status code
\* and with error_code and message None, also when the body is an error
\* envelope that has both keys.
C12_RedirectionCarriesStatusOnly ==
    (http.pc = "done" /\ http.status_code >= 300 /\ http.status_code <= 399
        /\ decode_body(http.headers, http.body).ok) =>
        /\ http.out.exc = "RegistryRedirectionError"
        /\ http.out.status_code = http.status_code
        /\ http.out.error_code = None
        /\ http.out.message = None

\* A 301 whose body is a decoded error envelope.
C12_Witness ==
    /\ http.pc = "done" /\ http.status_code = 301
    /\ http.body = EnvelopeBody /\ http.headers = Some(SchemaRegistryJson)
    /\ http.out.exc = "RegistryRedirectionError"

\* This step is a get_schema_by_id call with this ID: it either suspends on
\* its GET or returns at once.
GetByIdCalled(schema_id) ==
    \E t \in Tasks :
        /\ task[t].pc = "idle"
        /\ \/ /\ task'[t].pc = "get_schema_by_id"
              /\ task'[t].arg = schema_id
           \/ /\ \A u \in Tasks : task'[u].pc = task[u].pc
              /\ last'.op = "get_schema_by_id"
              /\ last'.arg = schema_id

\* This step is the return of a get_schema_by_id call the registry answered.
GetByIdAnswered ==
    /\ \E t \in Tasks : task[t].pc = "get_schema_by_id" /\ task'[t].pc = "idle"
    /\ Fetched("get_schema_by_id")'

\* C13: get_schema_by_id(id) sends nothing when the Schema Cache has id; on a
\* miss it sends one GET, and when that succeeds the schema fetched is in the
\* cache under the requested id, where it stays: no later get_schema_by_id(id)
\* sends a request.
C13_GetByIdCacheFirst ==
    [][/\ \A schema_id \in IDs :
             GetByIdCalled(schema_id) =>
                 IF schema_id \in DOMAIN id_to_schema
                 THEN /\ reqs' = reqs
                      /\ last'.hit /\ last'.exc = ""
                      /\ last'.val = json_loads(id_to_schema[schema_id])
                 ELSE /\ reqs'.total = reqs.total + 1
                      /\ reqs'.get_id[schema_id] = Count(reqs.get_id, schema_id) + 1
                      /\ reqs'.post = reqs.post /\ reqs'.get_subject = reqs.get_subject
       /\ GetByIdAnswered =>
             /\ last'.arg \in DOMAIN id_to_schema'
             /\ id_to_schema'[last'.arg] = json_dumps_sorted(last'.val)
             /\ reqs' = reqs
       /\ DOMAIN id_to_schema \subseteq DOMAIN id_to_schema']_vars

\* One GET was answered, and the same ID was then served from the cache.
C13_Witness ==
    /\ last.op = "get_schema_by_id" /\ last.exc = "" /\ last.hit
    /\ reqs.total = 1
    /\ Count(reqs.get_id, last.arg) = 1

\* The call that returned last succeeded, and the cache pair it read or
\* wrote has not been overwritten.
Succeeded(op) == last.op = op /\ last.exc = "" /\ (~last.hit \/ ~dirty)

GetBySubjectCalled(subject, version) ==
    \E t \in Tasks :
        /\ task[t].pc = "idle"
        /\ \/ /\ task'[t].pc = "get_schema_by_subject"
              /\ task'[t].arg = <<subject, version>>
           \/ /\ \A u \in Tasks : task'[u].pc = task[u].pc
              /\ last'.op = "get_schema_by_subject"
              /\ last'.arg = <<subject, version>>

\* C15: get_schema_by_subject(subject, "latest") is never answered from the
\* cache: every such call sends one GET, whatever versions of the subject the
\* Subject Cache holds.
C15_LatestAlwaysFetched ==
    [][\A subject \in Subjects :
          GetBySubjectCalled(subject, Latest) =>
              /\ \E t \in Tasks : task[t].pc = "idle"
                                  /\ task'[t].pc = "get_schema_by_subject"
              /\ reqs'.total = reqs.total + 1
              /\ reqs'.get_subject[<<subject, Latest>>] =
                     Count(reqs.get_subject, <<subject, Latest>>) + 1
              /\ reqs'.post = reqs.post /\ reqs'.get_id = reqs.get_id]_vars

\* A second GET for "latest" is in flight while the version the first one
\* was answered with is in the Subject Cache.
C15_Witness ==
    /\ \E t \in Tasks : /\ task[t].pc = "get_schema_by_subject"
                        /\ task[t].arg = <<"s1", Latest>>
    /\ Count(reqs.get_subject, <<"s1", Latest>>) = 2
    /\ DOMAIN subject_to_id # {}

\* Two composites are equal as Python dicts.
SameComposite(a, b) ==
    /\ a.subject = b.subject /\ a.version = b.version /\ a.id = b.id
    /\ json_dumps_sorted(a.schema) = json_dumps_sorted(b.schema)

\* This step is the return of a get_schema_by_subject call that the registry
\* answered with an integer version.
GetBySubjectAnswered ==
    /\ \E t \in Tasks : task[t].pc = "get_schema_by_subject" /\ task'[t].pc = "idle"
    /\ Fetched("get_schema_by_subject")'
    /\ last'.val.version.isint

\* The Schema Cache holds this composite's schema under this composite's ID.
SchemaCachedAs(composite) ==
    /\ composite.id \in DOMAIN id_to_schema
    /\ id_to_schema[composite.id] = json_dumps_sorted(composite.schema)

ClientOps == {"register_schema", "get_schema_by_id", "get_schema_by_subject"}

\* The errors a high-level operation reports: the four HTTP errors, the
\* RuntimeError of a schema without a name, and the transport's own failure.
Taxonomy ==
    {"RegistryRedirectionError", "RegistryBadRequestError", "RegistryBrokenError",
     "RegistryHttpError", "RuntimeError", "TransportError"}

\* C17: whatever the transport answers, a high-level operation returns a
\* result or raises one error of the taxonomy; the KeyError and ValueError of
\* the caches never reach the caller.  (A schema argument that fastavro
\* rejects is the caller's error, not a response, and is left aside.)
C17_OnlyTaxonomyErrors ==
    (last.op \in ClientOps /\ last.exc \notin {"", "SchemaParseException"}) =>
        last.exc \in Taxonomy

\* C17, the cache signals alone: no operation ends with the KeyError of the
\* Schema Cache or the ValueError of the Subject Cache after a cache miss.
C17_CacheMissFallsBack ==
    [][\A t \in Tasks :
          (task[t].pc = "idle" /\ task'[t].pc = "idle"
              /\ \A u \in Tasks : task'[u].pc = task[u].pc
              /\ last'.op \in ClientOps)
          => last'.exc \notin {"KeyError", "ValueError"}]_vars

\* In this step task t returns from a call and nothing else moves.
OnlyReturns(t) ==
    /\ task[t].pc \in ClientOps /\ task'[t].pc = "idle"
    /\ \A u \in Tasks \ {t} : task'[u].pc = task[u].pc

\* The answers that are a failed request: the transport's own exception, or
\* a status that decipher_response turns into one.
FailedAnswers == {answer \in ErrorAnswers : ~_make_request_result(answer).ok}

\* C18: no operation retries.  A call sends one request when it suspends and
\* none when it returns; it returns at the first answer; and when the answer
\* is a failed request the caller gets that failure and the caches are
\* untouched.
C18_NoRetry ==
    [][\A t \in Tasks :
          /\ (task[t].pc = "idle" /\ task'[t].pc \in ClientOps) =>
                reqs'.total = reqs.total + 1
          /\ (task[t].pc \in ClientOps /\ task'[t].pc # task[t].pc) =>
                /\ task'[t].pc = "idle"
                /\ reqs' = reqs
                /\ last'.op = task[t].pc
          /\ (\A u \in Tasks : task'[u].pc = task[u].pc) => reqs' = reqs
          /\ \A answer \in FailedAnswers :
                (OnlyReturns(t)
                    /\ \/ register_schema_resume(t, answer)
                       \/ get_schema_by_id_resume(t, answer)
                       \/ get_schema_by_subject_resume(t, answer)) =>
                    /\ last'.exc = _make_request_result(answer).exc
                    /\ reqs' = reqs
                    /\ UNCHANGED cacheVars]_vars

\* The one request of a call met a transport failure, and the caller got it.
C18_Witness ==
    /\ last.op \in ClientOps /\ last.exc = "TransportError"
    /\ reqs.total = 1
    /\ \A t \in Tasks : task[t].pc = "idle"

\* C19: SubjectCache.insert raises TypeError for every version that is not
\* a non-negative integer ("latest", another string, a negative integer),
\* whatever schema_id and schema it is given.
C19_RejectsInvalidVersion ==
    (last.op = "SubjectCache.insert"
        /\ ~(last.arg.version.isint /\ last.arg.version.n >= 0)) =>
        last.exc = "TypeError"

\* C19 for the versions that are not integers: they are all rejected with
\* TypeError before schema_id and schema are looked at, and no integer is.
C19_RejectsNonInteger ==
    (last.op = "SubjectCache.insert") =>
        (last.exc = "TypeError" <=> ~last.arg.version.isint)


\* An insert call that names a schema ID the Schema Cache does not hold, with
\* an integer version.
InsertOfUnknownId ==
    /\ last'.op = "SubjectCache.insert"
    /\ last'.arg.version.isint
    /\ last'.arg.schema_id # None
    /\ last'.arg.schema_id[1] \notin DOMAIN id_to_schema

\* C20: SubjectCache.insert with an integer version and a schema ID that is
\* not in the Schema Cache: without a schema the call fails with ValueError
\* and no map changes; with a schema S it first inserts (S, i) into the
\* Schema Cache, both directions, and then maps (subject, version) to i.  A
\* schema that cannot be parsed fails the Schema Cache insert and no map
\* changes.
C20_InsertUnknownId ==
    [][InsertOfUnknownId =>
        LET a == last'.arg
            i == a.schema_id[1]
        IN  IF a.schema = None
            THEN last'.exc = "ValueError" /\ UNCHANGED cacheVars
            ELSE LET serialized == _serialize_schema(a.schema[1])
                 IN  IF serialized.ok
                     THEN /\ last'.exc = ""
                          /\ id_to_schema' = Put(id_to_schema, i, serialized.val)
                          /\ schema_to_id' = Put(schema_to_id, serialized.val, i)
                          /\ subject_to_id' =
                                Put(subject_to_id, <<a.subject, a.version>>, i)
                     ELSE last'.exc = serialized.exc /\ UNCHANGED cacheVars]_vars

\* Both cases have happened: the entry ("s1", 1) -> 2 was made by an insert
\* that brought the schema along, while ID 1 is still unknown.
C20_Witness ==
    /\ last.op = "SubjectCache.insert"
    /\ last.exc = ""
    /\ last.arg.schema_id = Some(2)
    /\ last.arg.schema = Some(RecordA)
    /\ last.arg.version = V(1)
    /\ DOMAIN id_to_schema = {2}
    /\ DOMAIN subject_to_id = {<<"s1", V(1)>>}
    /\ subject_to_id[<<"s1", V(1)>>] = 2

\* An insert call with an integer version and no schema ID.
InsertWithoutId ==
    /\ last'.op = "SubjectCache.insert"
    /\ last'.arg.version.isint
    /\ last'.arg.schema_id = None

\* C21: SubjectCache.insert with a schema S and no schema_id maps
\* (subject, version) to the ID the Schema Cache holds for S when S is cached
\* and changes nothing else; when S is not cached (a schema that cannot be
\* parsed is not) it fails with ValueError, no map changes and no request is
\* sent; with neither schema_id nor schema it fails with ValueError.
C21_InsertBySchemaOnly ==
    [][InsertWithoutId =>
        LET a == last'.arg
        IN  /\ reqs' = reqs
            /\ IF a.schema = None
               THEN last'.exc = "ValueError" /\ UNCHANGED cacheVars
               ELSE LET serialized == _serialize_schema(a.schema[1])
                    IN  IF serialized.ok /\ serialized.val \in DOMAIN schema_to_id
                        THEN /\ last'.exc = ""
                             /\ subject_to_id' =
                                   Put(subject_to_id, <<a.subject, a.version>>,
                                       schema_to_id[serialized.val])
                             /\ UNCHANGED <<id_to_schema, schema_to_id>>
                        ELSE last'.exc = "ValueError" /\ UNCHANGED cacheVars]_vars

\* The schema was cached under ID 2, and an insert that named only the
\* schema, its keys in another order, mapped ("s1", 1) to 2.
C21_Witness ==
    /\ last.op = "SubjectCache.insert"
    /\ last.exc = ""
    /\ last.arg.schema_id = None
    /\ last.arg.schema = Some(RecordA_reordered)
    /\ last.arg.version = V(1)
    /\ DOMAIN id_to_schema = {2}
    /\ DOMAIN subject_to_id = {<<"s1", V(1)>>}
    /\ subject_to_id[<<"s1", V(1)>>] = 2

\* The (subject, version) pair the getter that returned last was asked for.
AskedPair == <<last.arg[1], last.arg[2]>>

\* The schema ID the Subject Cache maps that pair to.
MappedId == subject_to_id[AskedPair]

\* C22: SubjectCache.get_id, get_schema and get fail with ValueError exactly
\* when the (subject, version) pair is absent; when it is present they return
\* the mapped ID, the schema cached under that ID, and the composite of
\* subject, version, ID and schema.  get with a version that is not an int
\* fails whatever the cache holds.
C22_GettersFailIffAbsent ==
    /\ last.op = "SubjectCache.get_id" =>
          IF AskedPair \in DOMAIN subject_to_id
          THEN last.exc = "" /\ last.val = MappedId
          ELSE last.exc = "ValueError"
    /\ last.op = "SubjectCache.get_schema" =>
          IF AskedPair \in DOMAIN subject_to_id
          THEN last.exc = "" /\ last.val = json_loads(id_to_schema[MappedId])
          ELSE last.exc = "ValueError"
    /\ last.op = "SubjectCache.get" =>
          IF last.arg[2].isint /\ AskedPair \in DOMAIN subject_to_id
          THEN /\ last.exc = ""
               /\ last.val = [subject |-> last.arg[1], version |-> last.arg[2],
                              id |-> MappedId,
                              schema |-> json_loads(id_to_schema[MappedId])]
          ELSE last.exc = "ValueError"

\* get returned the composite of a cached pair.
C22_Witness ==
    /\ last.op = "SubjectCache.get"
    /\ last.exc = ""
    /\ last.arg = <<"s1", V(1)>>
    /\ last.val.id = 2
    /\ last.val.schema = json_loads(json_dumps_sorted(RecordA_parsed))

\* This step is a serialize call that suspends on a request of its own.
SerializeSuspends(t) ==
    /\ task[t].pc = "idle"
    /\ task'[t].pc \in {"serialize:get_schema_by_id", "serialize:register_schema"}

\* This step is a serialize call returning or raising.
SerializeReturns(t) ==
    /\ task[t].pc \in {"idle", "serialize:get_schema_by_id", "serialize:register_schema"}
    /\ task'[t].pc = "idle"
    /\ last'.op = "PolySerializer.serialize"

\* The wire-format prefix of schema ID i.
PrefixOf(i) == pack_wire_format_prefix(ToInt32(i)).val

\* C23: PolySerializer.serialize with a schema_id goes through
\* get_schema_by_id(schema_id) and never through register_schema, also when
\* a schema is passed along: no POST is sent, the message is written with
\* the schema the client holds for that ID and not with the passed one, and
\* its prefix carries the given ID.  With a schema only it goes through
\* register_schema: no GET is sent and the prefix carries the ID the schema
\* is registered under.
C23_SchemaIdTakesPrecedence ==
    [][\A t \in SerdeTasks :
        /\ SerializeSuspends(t) =>
              LET a == task'[t].arg
              IN  IF a.schema_id # None
                  THEN /\ task'[t].pc = "serialize:get_schema_by_id"
                       /\ reqs'.post = reqs.post
                       /\ Count(reqs'.get_id, a.schema_id[1])
                            = Count(reqs.get_id, a.schema_id[1]) + 1
                       /\ reqs'.total = reqs.total + 1
                  ELSE /\ task'[t].pc = "serialize:register_schema"
                       /\ a.schema # None
                       /\ reqs'.get_id = reqs.get_id
                       /\ reqs'.total = reqs.total + 1
        /\ SerializeReturns(t) =>
              LET a == last'.arg
                  out == last'.val
              IN  /\ reqs' = reqs
                  /\ a.schema_id # None =>
                        /\ out.via = "get_schema_by_id"
                        /\ task[t].pc # "serialize:register_schema"
                        /\ IF a.schema_id[1] \in DOMAIN id_to_schema'
                           THEN LET held == json_loads(id_to_schema'[a.schema_id[1]])
                                    message == make_message(a.schema_id[1], held, a.data)
                                IN  /\ last'.exc = message.exc
                                    /\ out.message = message.val
                                    /\ message.ok =>
                                          SubSeq(out.message, 1, 5) = PrefixOf(a.schema_id[1])
                           ELSE last'.exc # ""
                  /\ (a.schema_id = None /\ a.schema # None) =>
                        /\ out.via = "register_schema"
                        /\ task[t].pc # "serialize:get_schema_by_id"
                        /\ last'.exc = "" =>
                              LET key == _serialize_schema(a.schema[1]).val
                              IN  /\ key \in DOMAIN schema_to_id'
                                  /\ SubSeq(out.message, 1, 5) = PrefixOf(schema_to_id'[key])
                                  /\ out.message =
                                        make_message(schema_to_id'[key], a.schema[1],
                                                     a.data).val]_vars

\* serialize was given ID 1 and a record schema; the client holds a string
\* schema for ID 1, and the string datum was written under prefix 1.
C23_Witness ==
    /\ last.op = "PolySerializer.serialize"
    /\ last.exc = ""
    /\ last.arg.schema_id = Some(1)
    /\ last.arg.schema = Some(RecordA)
    /\ last.arg.data = DatumString
    /\ last.val = Serialized("get_schema_by_id", <<0, 0, 0, 0, 1, 2, 97>>)
    /\ reqs.post = EmptyMap

\* C24: PolySerializer.serialize with neither schema nor schema_id raises
\* RuntimeError at once: it never suspends on a request, no request is
\* counted and no cache map changes.
C24_NeitherGivenFails ==
    [][\A t \in SerdeTasks :
        /\ SerializeSuspends(t) =>
              ~(task'[t].arg.schema = None /\ task'[t].arg.schema_id = None)
        /\ (SerializeReturns(t) /\ last'.arg.schema = None /\ last'.arg.schema_id = None) =>
              /\ task[t].pc = "idle"
              /\ last'.exc = "RuntimeError"
              /\ last'.val = Serialized("none", <<>>)
              /\ reqs' = reqs
              /\ UNCHANGED cacheVars]_vars

\* serialize was called with a datum and nothing else, on a client whose
\* caches are not empty.
C24_Witness ==
    /\ last.op = "PolySerializer.serialize"
    /\ last.arg.schema = None
    /\ last.arg.schema_id = None
    /\ last.exc = "RuntimeError"
    /\ DOMAIN id_to_schema # {}
    /\ reqs.total = 1

\* The variables, with the recorded call taken apart: what changes when vars does.
callVars ==
    <<cacheVars, task, reqs, dirty, observing, wire, http, instances,
      last.op, last.exc, last.hit, last.arg, last.val>>

\* This step is a deserialize call returning or raising.
DeserializeReturns(t) ==
    /\ task[t].pc \in {"idle", "deserialize:get_schema_by_id"}
    /\ task'[t].pc = "idle"
    /\ last'.op = "Deserializer.deserialize"

\* C25: with the Avro codec an inverse pair, deserializing the message a
\* serializer wrote for datum d under schema ID i, on a client that holds
\* the schema of ID i, returns id = i and message = d in the step it is
\* called, sending nothing and changing no cache, and the result has a
\* "schema" key, holding that schema, exactly when include_schema was passed.
C25_DeserializeInvertsSerialize ==
    [][\A t \in SerdeTasks, i \in DOMAIN id_to_schema, d \in Datums :
        LET schema == json_loads(id_to_schema[i])
            written == make_message(i, schema, d)
        IN  (DeserializeReturns(t) /\ written.ok /\ last'.arg.data = written.val) =>
                /\ task[t].pc = "idle"
                /\ last'.exc = ""
                /\ Get(last'.val, "id") = i
                /\ Get(last'.val, "message") = d
                /\ HasKey(last'.val, "schema") <=> last'.arg.include_schema
                /\ HasKey(last'.val, "schema") => Get(last'.val, "schema") = schema
                /\ reqs' = reqs
                /\ UNCHANGED cacheVars]_callVars

\* A string datum written under ID 2 came back, with its schema.
C25_Witness ==
    /\ last.op = "Deserializer.deserialize"
    /\ last.exc = ""
    /\ last.arg = [data |-> <<0, 0, 0, 0, 2, 2, 97>>, include_schema |-> TRUE]
    /\ Get(last.val, "id") = 2
    /\ Get(last.val, "message") = DatumString
    /\ HasKey(last.val, "schema")

\* What client c's caches hold, reached the way its operations reach them:
\* the Schema Cache through c.schema_cache, the Subject Cache and the Schema
\* Cache it is layered on through c.subject_cache.
CachesOf(c) ==
    LET heap == instances.heap
        self == instances.api[c]
    IN  [id_to_schema |-> heap[self.schema_cache.id_to_schema],
         schema_to_id |-> heap[self.schema_cache.schema_to_id],
         subject_to_id |-> heap[self.subject_cache.subject_to_id],
         layered_id_to_schema |-> heap[self.subject_cache.schema_cache.id_to_schema],
         layered_schema_to_id |-> heap[self.subject_cache.schema_cache.schema_to_id]]

\* The dicts client c refers to.
DictsOf(c) ==
    LET self == instances.api[c]
    IN  {self.schema_cache.id_to_schema, self.schema_cache.schema_to_id,
         self.subject_cache.subject_to_id,
         self.subject_cache.schema_cache.id_to_schema,
         self.subject_cache.schema_cache.schema_to_id}

EmptyCaches ==
    [id_to_schema |-> EmptyMap, schema_to_id |-> EmptyMap, subject_to_id |-> EmptyMap,
     layered_id_to_schema |-> EmptyMap, layered_schema_to_id |-> EmptyMap]

\* C26: a client's caches are empty when it is constructed; its Subject
\* Cache is layered on its own Schema Cache; no two clients refer to one
\* dict, and no step changes what a client holds other than the one client
\* the step's operation is called on.
C26_CachesPerClient ==
    [][/\ \A c \in DOMAIN instances'.api :
             /\ c \notin DOMAIN instances.api => CachesOf(c)' = EmptyCaches
             /\ instances'.api[c].subject_cache.schema_cache = instances'.api[c].schema_cache
       /\ \A c1, c2 \in DOMAIN instances'.api :
             c1 # c2 => DictsOf(c1)' \cap DictsOf(c2)' = {}
       /\ \A c1, c2 \in DOMAIN instances.api :
             c1 # c2 => CachesOf(c1)' = CachesOf(c1) \/ CachesOf(c2)' = CachesOf(c2)
       /\ \A c \in DOMAIN instances.api : instances'.api[c] = instances.api[c]]_vars

\* Two clients, one holding a schema and a subject version, the other
\* constructed later and still empty.
C26_Witness ==
    /\ DOMAIN instances.api = Clients
    /\ DOMAIN CachesOf("c1").id_to_schema = {1}
    /\ DOMAIN CachesOf("c1").subject_to_id = {<<"s1", V(1)>>}
    /\ CachesOf("c2") = EmptyCaches
    /\ instances.api["c2"].schema_cache.id_to_schema = 4

\* C27: no operation removes a cache entry: at every step the key sets of
\* id_to_schema, of schema_to_id and of subject_to_id keep all their
\* elements.
C27_KeysOnlyGrow ==
    [][/\ DOMAIN id_to_schema \subseteq DOMAIN id_to_schema'
       /\ DOMAIN schema_to_id \subseteq DOMAIN schema_to_id'
       /\ DOMAIN subject_to_id \subseteq DOMAIN subject_to_id']_vars

\* Entries were written over, not removed: one schema was stored under two
\* IDs, both IDs are still keys, and a subject version is mapped.
C27_Witness ==
    /\ DOMAIN id_to_schema = {1, 2}
    /\ id_to_schema[1] = id_to_schema[2]
    /\ Cardinality(DOMAIN schema_to_id) = 1
    /\ Cardinality(DOMAIN subject_to_id) = 2

\* C28: SchemaCache.insert is idempotent: from every state of the two maps
\* and for every (schema, schema_id), inserting the pair a second time ends
\* as the first insert did and leaves the maps as the first insert left them.
C28_InsertIdempotent ==
    \A schema \in Schemas, schema_id \in IDs :
        LET once == SchemaCache_insert(id_to_schema, schema_to_id, schema, schema_id)
            maps == IF once.ok THEN once.val
                    ELSE [id_to_schema |-> id_to_schema, schema_to_id |-> schema_to_id]
            twice == SchemaCache_insert(maps.id_to_schema, maps.schema_to_id,
                                        schema, schema_id)
        IN  /\ twice.exc = once.exc
            /\ twice.ok => twice.val = maps

\* An insert that re-paired ID 1 has returned, on maps that hold two IDs.
C28_Witness ==
    /\ last.op = "SchemaCache.insert"
    /\ last.exc = ""
    /\ last.arg = [schema |-> Primitive, schema_id |-> 1]
    /\ DOMAIN id_to_schema = {1, 2}
    /\ dirty

\* The schema is a key of the Schema Cache: it can be canonicalized and its
\* canonical form is registered.
HoldsSchema(schema) ==
    /\ _serialize_schema(schema).ok
    /\ _serialize_schema(schema).val \in DOMAIN schema_to_id

\* C29: the lookups of the Schema Cache write nothing and signal absence
\* with KeyError only: schema_cache[id] of an absent ID, schema_cache[schema]
\* of an unregistered schema and of a schema that cannot be canonicalized
\* raise KeyError, every other lookup returns the partner, and
\* key in schema_cache never raises and is False in exactly those cases.
C29_LookupsReadOnly ==
    [][LET key == last'.arg
       IN  /\ last'.op \in {"SchemaCache.get_by_id", "SchemaCache.get_by_schema",
                            "SchemaCache.contains_id", "SchemaCache.contains_schema"} =>
                  UNCHANGED <<cacheVars, dirty, reqs>>
           /\ last'.op = "SchemaCache.get_by_id" =>
                  IF key \in DOMAIN id_to_schema
                  THEN last'.exc = "" /\ last'.val = json_loads(id_to_schema[key])
                  ELSE last'.exc = "KeyError"
           /\ last'.op = "SchemaCache.get_by_schema" =>
                  IF HoldsSchema(key)
                  THEN last'.exc = "" /\ last'.val = schema_to_id[_serialize_schema(key).val]
                  ELSE last'.exc = "KeyError"
           /\ last'.op = "SchemaCache.contains_id" =>
                  last'.exc = "" /\ (last'.val <=> key \in DOMAIN id_to_schema)
           /\ last'.op = "SchemaCache.contains_schema" =>
                  last'.exc = "" /\ (last'.val <=> HoldsSchema(key))]_callVars

\* A schema that cannot be canonicalized was looked up in a cache that holds
\* schemas: KeyError.
C29_Witness ==
    /\ last.op = "SchemaCache.get_by_schema"
    /\ last.arg = Malformed
    /\ last.exc = "KeyError"
    /\ DOMAIN id_to_schema = {1, 2}
    /\ Cardinality(DOMAIN schema_to_id) = 2

\* This step is a verb helper called by task t: it suspends on its request.
VerbCalled(t) == task[t].pc = "idle" /\ task'[t].pc = "verb"

\* This step is a verb helper of task t returning or raising.
VerbReturns(t) == task[t].pc = "verb" /\ task'[t].pc = "idle"

\* C30: each verb helper sends exactly one request, when it is called, whose
\* method is its own verb in upper case (put sends PUT), and returns what
\* decipher_response makes of the answer to that request, or raises what it
\* raises, without sending anything more.
C30_VerbSendsOwnMethod ==
    [][\A t \in Tasks :
        /\ VerbCalled(t) =>
              LET request == task'[t].arg
              IN  /\ request.method =
                        CASE request.verb = "get" -> "GET"
                          [] request.verb = "post" -> "POST"
                          [] request.verb = "patch" -> "PATCH"
                          [] request.verb = "put" -> "PUT"
                          [] request.verb = "delete" -> "DELETE"
                  /\ reqs'.total = reqs.total + 1
                  /\ Count(reqs'.method, request.method)
                        = Count(reqs.method, request.method) + 1
                  /\ \A m \in DOMAIN reqs'.method :
                        m # request.method => Count(reqs.method, m) = reqs'.method[m]
        /\ VerbReturns(t) =>
              LET answer == last'.arg.answer
                  deciphered == IF answer.failed THEN Raise("TransportError")
                                ELSE decipher_response(answer.status_code, answer.headers,
                                                       answer.body)
              IN  /\ last'.op = task[t].arg.verb
                  /\ last'.arg.request = task[t].arg
                  /\ last'.exc = deciphered.exc
                  /\ last'.val = deciphered.val
                  /\ reqs' = reqs
                  /\ UNCHANGED cacheVars]_callVars

\* put returned the deciphered body of the answer to its one PUT.
C30_Witness ==
    /\ last.op = "put"
    /\ last.exc = ""
    /\ last.val = PyDict(<<<<"id", 1>>>>)
    /\ reqs.total = 1
    /\ reqs.method = [m \in {"PUT"} |-> 1]
    /\ \A t \in Tasks : task[t].pc = "idle"

\* The tasks whose GET for this ID the transport holds.
FetchingId(schema_id) ==
    {t \in Tasks : task[t].pc = "get_schema_by_id" /\ task[t].arg = schema_id}

\* C31: nothing but the cache check stands between a call and the transport:
\* every call suspended on the registry has sent a request of its own for its
\* key, so that calls which passed the cache check for one uncached schema, or
\* for one uncached ID, before any of them inserted have sent one request each.
C31_EachMissSendsItsOwnRequest ==
    /\ \A t \in Tasks :
          task[t].pc = "register_schema" =>
              Count(reqs.post, _prep_schema(task[t].arg)) >=
                  Cardinality(Posting(_prep_schema(task[t].arg)))
    /\ \A schema_id \in IDs :
          Count(reqs.get_id, schema_id) >= Cardinality(FetchingId(schema_id))

\* Two get_schema_by_id calls are suspended on one ID that the cache does not
\* hold, and the transport has been sent two GETs for it.
C31_Witness ==
    \E schema_id \in IDs :
        /\ Cardinality(FetchingId(schema_id)) = 2
        /\ schema_id \notin DOMAIN id_to_schema
        /\ Count(reqs.get_id, schema_id) = 2

-----------------------------------------------------------------------------
(* The client against a registry that answers consistently: one fixed       *)
(* injective assignment of IDs to canonical schemas.                        *)

\* The ID the registry has given a schema.
RegistryIdOf(schema) == IF Get(schema, "type") = "record" THEN 1 ELSE 2

\* The schema the registry holds under an ID.
RegistrySchemaOf(schema_id) ==
    CHOOSE s \in RegistrySchemas : RegistryIdOf(json_loads(s)) = schema_id

\* What this registry may answer the request a task is suspended on.
ConsistentAnswers(t) ==
    ErrorAnswers \cup
    CASE task[t].pc = "register_schema" ->
            {Response(200, Some(SchemaRegistryJson), IdBody(RegistryIdOf(task[t].arg)))}
      [] task[t].pc = "get_schema_by_id" ->
            {Response(200, Some(SchemaRegistryJson), SchemaBody(RegistrySchemaOf(task[t].arg)))}
      [] task[t].pc = "get_schema_by_subject" ->
            {Response(200, Some(SchemaRegistryJson),
                      SubjectBody(RegistryIdOf(json_loads(s)), v, task[t].arg[1], s)) :
                v \in IntVersions, s \in RegistrySchemas}
      [] OTHER -> {}

ConsistentNext ==
    \E t \in Tasks :
        \/ \E schema \in Schemas, subject \in OptionalSubjects : register_schema(t, schema, subject)
        \/ \E answer \in ConsistentAnswers(t) : register_schema_resume(t, answer)
        \/ \E schema_id \in IDs : get_schema_by_id(t, schema_id)
        \/ \E answer \in ConsistentAnswers(t) : get_schema_by_id_resume(t, answer)
        \/ \E subject \in Subjects, version \in RequestedVersions :
                get_schema_by_subject(t, subject, version)
        \/ \E answer \in ConsistentAnswers(t) : get_schema_by_subject_resume(t, answer)

\* One client, its operations called by concurrent tasks, and a registry
\* that never gives one ID to two schemas or two IDs to one schema.
SpecConsistent == Init /\ [][ConsistentNext]_vars

\* The Schema Cache one register_schema call for this schema leaves behind
\* when it starts from empty caches.
SingleCall(schema) ==
    SchemaCache_insert(EmptyMap, EmptyMap, parse_schema(schema).val, RegistryIdOf(schema)).val

\* C32: against a registry that answers every registration of a schema with
\* the same ID, each register_schema call that succeeds, from the cache or
\* from its own POST, returns that ID; the first call to complete adds the
\* pair a single call adds and touches nothing else, and every duplicate that
\* completes after it leaves the caches exactly as they are, in whatever
\* order the calls and the answers interleave.
C32_DuplicateRegistrationHarmless ==
    [][/\ (last'.op = "register_schema" /\ last'.exc = ""
              /\ \E t \in Tasks : task[t].pc # task'[t].pc) =>
             last'.val = RegistryIdOf(json_loads(last'.arg))
       /\ \A t \in Tasks :
             (OnlyReturns(t) /\ task[t].pc = "register_schema" /\ last'.exc = "") =>
                 LET one == SingleCall(task[t].arg)
                     i == RegistryIdOf(task[t].arg)
                     s == one.id_to_schema[i]
                 IN  /\ subject_to_id' = subject_to_id
                     /\ IF s \in DOMAIN schema_to_id
                        THEN UNCHANGED cacheVars
                        ELSE /\ DOMAIN id_to_schema' = DOMAIN id_to_schema \cup {i}
                             /\ DOMAIN schema_to_id' = DOMAIN schema_to_id \cup {s}
                             /\ id_to_schema'[i] = s /\ schema_to_id'[s] = i
                             /\ \A x \in DOMAIN id_to_schema : id_to_schema'[x] = id_to_schema[x]
                             /\ \A x \in DOMAIN schema_to_id : schema_to_id'[x] = schema_to_id[x]
                     /\ (id_to_schema = EmptyMap /\ schema_to_id = EmptyMap) =>
                            /\ id_to_schema' = one.id_to_schema
                            /\ schema_to_id' = one.schema_to_id]_callVars

\* Two POSTs of one schema went to the registry and nothing else did, both
\* calls have returned, the last one with the registry's ID, and the caches
\* are what a single call leaves.
C32_Witness ==
    /\ \A t \in Tasks : task[t].pc = "idle"
    /\ last.op = "register_schema" /\ last.exc = "" /\ ~last.hit
    /\ reqs.total = 2 /\ Count(reqs.post, last.arg) = 2
    /\ last.val = RegistryIdOf(json_loads(last.arg))
    /\ id_to_schema = SingleCall(json_loads(last.arg)).id_to_schema
    /\ schema_to_id = SingleCall(json_loads(last.arg)).schema_to_id
    /\ subject_to_id = EmptyMap

\* C33: SchemaCache.insert(S, i2) on a cache that holds S under another ID
\* i1, as insert(S, i1) left it: afterwards get_by_schema(S) returns i2,
\* get_by_id(i2) returns S, and the entry of i1 is still there and still S.
C33_LastWriteWins ==
    [][(last'.op = "SchemaCache.insert" /\ last'.exc = "") =>
          LET S == last'.arg.schema
              i2 == last'.arg.schema_id
              serialized == _serialize_schema(S).val
          IN  \A i1 \in IDs \ {i2} :
                  (/\ serialized \in DOMAIN schema_to_id
                   /\ schema_to_id[serialized] = i1
                   /\ i1 \in DOMAIN id_to_schema
                   /\ id_to_schema[i1] = serialized) =>
                      /\ DOMAIN id_to_schema' = DOMAIN id_to_schema \cup {i2}
                      /\ id_to_schema'[i1] = id_to_schema[i1]
                      /\ SchemaCache_get_by_schema(schema_to_id', S) = Ok(i2)
                      /\ SchemaCache_get_by_id(id_to_schema', i2).ok
                      /\ CanonEqual(SchemaCache_get_by_id(id_to_schema', i2).val, S)
                      /\ SchemaCache_get_by_id(id_to_schema', i1).ok
                      /\ CanonEqual(SchemaCache_get_by_id(id_to_schema', i1).val, S)]_callVars

\* One schema was inserted under ID 1 and then under ID 2: both IDs give the
\* schema, the schema gives 2.
C33_Witness ==
    /\ last.op = "SchemaCache.insert" /\ last.exc = ""
    /\ last.arg.schema_id = 2
    /\ DOMAIN id_to_schema = {1, 2}
    /\ id_to_schema[1] = id_to_schema[2]
    /\ CanonEqual(json_loads(id_to_schema[1]), last.arg.schema)
    /\ DOMAIN schema_to_id = {id_to_schema[1]}
    /\ schema_to_id[id_to_schema[1]] = 2

\* The schemas no subject can be derived from.
Nameless == {schema \in Schemas : parse_schema(schema).ok /\ ~HasKey(schema, "name")}

\* C34: in every reachable cache state register_schema, called without a
\* subject and with a schema that has no name, returns the cached ID when the
\* schema is cached and raises RuntimeError when it is not; and the call that
\* ends with RuntimeError has sent nothing, has suspended no task and has
\* left the three maps as they were.
C34_CacheBeforeSubject ==
    /\ [](\A schema \in Nameless :
             LET parsed == parse_schema(schema).val
                 serialized == _serialize_schema(parsed).val
                 step == register_schema_before_await(schema_to_id, parsed, None)
             IN  IF serialized \in DOMAIN schema_to_id
                 THEN step.pc = "return" /\ step.val = schema_to_id[serialized]
                 ELSE step.pc = "raise" /\ step.exc = "RuntimeError")
    /\ [][(last'.op = "register_schema" /\ last'.exc = "RuntimeError"
               /\ \A t \in Tasks : task'[t].pc = task[t].pc) =>
             /\ reqs' = reqs
             /\ UNCHANGED cacheVars
             /\ last'.arg \in {_prep_schema(schema) : schema \in Nameless}
             /\ last'.arg \notin CachedPostKeys]_callVars

\* On empty caches a call without a subject for a schema without a name has
\* failed, and the transport was given nothing.
C34_Witness ==
    /\ last.op = "register_schema" /\ last.exc = "RuntimeError"
    /\ last.arg = _prep_schema(Primitive)
    /\ reqs.total = 0
    /\ id_to_schema = EmptyMap /\ schema_to_id = EmptyMap /\ subject_to_id = EmptyMap
    /\ \A t \in Tasks : task[t].pc = "idle"

\* An insert call with an integer version that names a schema ID the Schema
\* Cache holds.
InsertOfKnownId ==
    /\ last'.op = "SubjectCache.insert"
    /\ last'.arg.version.isint
    /\ last'.arg.schema_id # None
    /\ last'.arg.schema_id[1] \in DOMAIN id_to_schema

\* C35: SubjectCache.insert with an integer version and a schema ID i that
\* the Schema Cache holds succeeds, maps (subject, version) to i and leaves
\* both maps of the Schema Cache as they are, whatever schema argument comes
\* with it: none, the cached schema, another schema or one that cannot be
\* parsed.  get_schema(subject, version) then returns the schema that was
\* cached under i before the call.
C35_KnownIdOnlyMaps ==
    [][InsertOfKnownId =>
          LET a == last'.arg
              i == a.schema_id[1]
          IN  /\ last'.exc = ""
              /\ UNCHANGED <<id_to_schema, schema_to_id>>
              /\ DOMAIN subject_to_id' = DOMAIN subject_to_id \cup {<<a.subject, a.version>>}
              /\ subject_to_id'[<<a.subject, a.version>>] = i
              /\ \A key \in DOMAIN subject_to_id \ {<<a.subject, a.version>>} :
                    subject_to_id'[key] = subject_to_id[key]
              /\ SubjectCache_get_schema(id_to_schema', subject_to_id', a.subject, a.version)
                    = Ok(json_loads(id_to_schema[i]))]_callVars

\* ID 1 held the record schema; an insert that named ID 1 and brought the
\* string schema along mapped ("s1", 1) to 1, and the string schema is in
\* neither map.
C35_Witness ==
    /\ last.op = "SubjectCache.insert" /\ last.exc = ""
    /\ last.arg.schema_id = Some(1)
    /\ last.arg.schema = Some(Primitive)
    /\ last.arg.version = V(1)
    /\ DOMAIN id_to_schema = {1}
    /\ CanonEqual(json_loads(id_to_schema[1]), RecordA)
    /\ DOMAIN schema_to_id = {id_to_schema[1]}
    /\ subject_to_id[<<"s1", V(1)>>] = 1
    /\ SubjectCache_get_schema(id_to_schema, subject_to_id, "s1", V(1)).ok
    /\ CanonEqual(SubjectCache_get_schema(id_to_schema, subject_to_id, "s1", V(1)).val, RecordA)

\* The errors of a failed request: an HTTP error status or the transport's
\* own failure.
RequestErrors == {_make_request_result(answer).exc : answer \in FailedAnswers}

\* The call that returned last ended with the error of a failed request.
Failed(op) == last.op = op /\ last.exc \in RequestErrors

\* The registration keys of the schemas that have no name.
NamelessKeys == {_prep_schema(schema) : schema \in Nameless}

\* C36: a call of register_schema, get_schema_by_id or get_schema_by_subject
\* changes no map before its await, and none when it ends with an error,
\* whatever the error; so the key it asked for is cached after the failure
\* only if another call cached it meanwhile, and unless that happened the
\* identical call that follows a failed request sends its request again.
\* (After the failed registration of a schema without a name, a call without
\* a subject is not the identical call.)
C36_FailureLeavesCaches ==
    [][/\ \A t \in Tasks :
             /\ (OnlyReturns(t) /\ last'.op = task[t].pc /\ last'.exc # "") =>
                    UNCHANGED cacheVars /\ reqs' = reqs
             /\ (task[t].pc = "idle" /\ task'[t].pc \in ClientOps) => UNCHANGED cacheVars
       /\ ((\A t \in Tasks : task'[t].pc = task[t].pc)
              /\ last'.op \in ClientOps /\ last'.exc # "") => UNCHANGED cacheVars
       /\ (Failed("register_schema") /\ RegisterCalled(last.arg)
              /\ last.arg \notin CachedPostKeys /\ last.arg \notin NamelessKeys) =>
             /\ reqs'.total = reqs.total + 1
             /\ reqs'.post[last.arg] = Count(reqs.post, last.arg) + 1
       /\ (Failed("get_schema_by_id") /\ GetByIdCalled(last.arg)
              /\ last.arg \notin DOMAIN id_to_schema) =>
             /\ reqs'.total = reqs.total + 1
             /\ reqs'.get_id[last.arg] = Count(reqs.get_id, last.arg) + 1
       /\ (Failed("get_schema_by_subject") /\ GetBySubjectCalled(last.arg[1], last.arg[2])
              /\ last.arg \notin DOMAIN subject_to_id) =>
             /\ reqs'.total = reqs.total + 1
             /\ reqs'.get_subject[last.arg] = Count(reqs.get_subject, last.arg) + 1]_callVars

\* A registration was answered and cached, a GET for another ID failed with
\* an HTTP error, and the caches hold what the registration put there.
C36_Witness ==
    /\ Failed("get_schema_by_id")
    /\ last.exc = "RegistryBadRequestError"
    /\ \A t \in Tasks : task[t].pc = "idle"
    /\ reqs.total = 2
    /\ Count(reqs.get_id, last.arg) = 1
    /\ DOMAIN id_to_schema = IDs \ {last.arg}
    /\ Cardinality(DOMAIN schema_to_id) = 1
    /\ subject_to_id = EmptyMap

\* The string the Schema Cache holds for the schema the registry has under
\* an ID.
RegistrySerialized(schema_id) ==
    _serialize_schema(json_loads(RegistrySchemaOf(schema_id))).val

\* C37: when the registry has one ID for each schema and one schema for each
\* ID, and the caches are filled by register_schema, get_schema_by_id and
\* get_schema_by_subject alone, then in every reachable state, however the
\* calls of the tasks interleave, the two maps of the Schema Cache are
\* inverses of each other, no insert has re-paired an entry, every cached ID
\* holds the schema the registry has for it, so that it never changes, and
\* get_schema_by_id returns that schema.
C37_ConsistentRegistryConsistentCache ==
    /\ MapsAgree
    /\ ~dirty
    /\ \A i \in DOMAIN id_to_schema : id_to_schema[i] = RegistrySerialized(i)
    /\ \A key \in DOMAIN subject_to_id : id_to_schema[subject_to_id[key]] =
                                             RegistrySerialized(subject_to_id[key])
    /\ (last.op = "get_schema_by_id" /\ last.exc = "") =>
           _serialize_schema(last.val).val = RegistrySerialized(last.arg)

\* Both schemas are cached, each under the registry's ID, and the one that
\* came last came through get_schema_by_subject.
C37_Witness ==
    /\ DOMAIN id_to_schema = IDs
    /\ Cardinality(DOMAIN schema_to_id) = 2
    /\ last.op = "get_schema_by_subject" /\ last.exc = "" /\ ~last.hit
    /\ reqs.total = 2
    /\ Cardinality(DOMAIN subject_to_id) = 1

\* This step belongs to a register_schema or get_schema_by_id call: the call
\* suspends, resumes and returns, or returns at once.
SchemaCallSteps ==
    \/ \E t \in Tasks :
          /\ task[t].pc # task'[t].pc
          /\ {task[t].pc, task'[t].pc} \subseteq {"idle", "register_schema", "get_schema_by_id"}
    \/ /\ \A t \in Tasks : task'[t].pc = task[t].pc
       /\ last'.op \in {"register_schema", "get_schema_by_id"}

\* C38: no step of a register_schema or get_schema_by_id call changes the
\* Subject Cache; so when register_schema has just returned an ID from the
\* registry, a get_schema_by_subject call for a (subject, version) the
\* Subject Cache did not hold before the registration finds nothing and
\* sends its GET.
C38_SchemaCallsLeaveSubjectCache ==
    [][/\ SchemaCallSteps => subject_to_id' = subject_to_id
       /\ \A subject \in Subjects, version \in RequestedVersions :
             (Fetched("register_schema") /\ GetBySubjectCalled(subject, version)
                 /\ <<subject, version>> \notin DOMAIN subject_to_id) =>
                /\ \E t \in Tasks : task[t].pc = "idle"
                                    /\ task'[t].pc = "get_schema_by_subject"
                /\ reqs'.total = reqs.total + 1
                /\ reqs'.get_subject[<<subject, version>>] =
                      Count(reqs.get_subject, <<subject, version>>) + 1]_callVars

\* register_schema has returned an ID from its POST, the Schema Cache holds
\* the pair, the Subject Cache holds nothing, and a get_schema_by_subject for
\* version 1 is suspended on its GET.
C38_Witness ==
    /\ Fetched("register_schema")
    /\ Count(reqs.post, last.arg) = 1
    /\ last.val \in DOMAIN id_to_schema
    /\ subject_to_id = EmptyMap
    /\ \E t \in Tasks : /\ task[t].pc = "get_schema_by_subject"
                        /\ task[t].arg = <<"s1", V(1)>>
    /\ Count(reqs.get_subject, <<"s1", V(1)>>) = 1

\* C39: a SubjectCache.insert call that raises, for a version that is not an
\* integer, for an unknown schema ID without a schema, for an uncached schema
\* without an ID, for neither argument, or for a schema that cannot be
\* parsed, leaves the Subject Cache map and both Schema Cache maps as they
\* were; and those are the cases in which it raises.
C39_FailedInsertChangesNothing ==
    [][(last'.op = "SubjectCache.insert") =>
          LET a == last'.arg
              unknown_id == a.schema_id # None /\ a.schema_id[1] \notin DOMAIN id_to_schema
              uncached == a.schema # None
                             /\ ~SchemaCache_contains_schema(schema_to_id, a.schema[1])
              unparsed == a.schema # None /\ ~parse_schema(a.schema[1]).ok
          IN  /\ last'.exc # "" => UNCHANGED cacheVars
              /\ last'.exc # "" <=>
                    \/ ~a.version.isint
                    \/ unknown_id /\ (a.schema = None \/ unparsed)
                    \/ a.schema_id = None /\ (a.schema = None \/ uncached)]_callVars

\* The caches held a schema under ID 1 and a version of the subject; an
\* insert that named the unknown ID 2 without a schema failed, and they hold
\* what they held.
C39_Witness ==
    /\ last.op = "SubjectCache.insert" /\ last.exc = "ValueError"
    /\ last.arg.version = V(1)
    /\ last.arg.schema_id = Some(2) /\ last.arg.schema = None
    /\ DOMAIN id_to_schema = {1}
    /\ Cardinality(DOMAIN schema_to_id) = 1
    /\ DOMAIN subject_to_id = {<<"s1", V(1)>>}
    /\ subject_to_id[<<"s1", V(1)>>] = 1

====
